---- MODULE Spec2Model ----
(***************************************************************************)
(* Model of the search engine of server/services/googleDriveService.js     *)
(* (class GoogleDriveService, the version with folderCache / pathCache):   *)
(* searchFiles, globalDriveSearch, optimizedRecursiveSearch,               *)
(* buildFolderStructureBulk, searchInSingleFolder, isDescendantOf,         *)
(* getOptimizedPath, buildFilePath and clearCaches, run against a remote   *)
(* Drive whose calls may fail and whose concurrent calls complete in any   *)
(* order.                                                                  *)
(***************************************************************************)
EXTENDS Naturals, Integers, Sequences, FiniteSets, TLC

(***************************************************************************)
(* Bounds of the model.                                                    *)
(***************************************************************************)
\* cap on the fan-out of one batch (the source uses 15 and 10)
MaxBatch == 2
\* number of service calls (searchFiles / buildFolderStructureBulk) in a run
MaxSearches == 2
\* largest maxDepth handed to buildFolderStructureBulk directly
MaxDepthArg == 3
\* number of remote calls that may fail in one run of the service
MaxFailures == 2

\* cap on the page size of the store (the source asks for 100 and 1000)
MaxPage == 2

\* number of isDescendantOf calls in a run of concurrent requests
MaxWalks == 3

\* number of input events (typing, Enter) handled by a search box
MaxTyped == 3

\* number of calls of EncryptedStorage in a run of the storage
MaxStorageOps == 3

\* access tokens Google issues in a run
MaxTokens == 3

\* page loads, logouts and timer callbacks of a run
MaxAuthOps == 3

\* files.list requests of one fetchFiles call
MaxRounds == 3

Min(a, b) == IF a <= b THEN a ELSE b

Bit(b) == IF b THEN 1 ELSE 0

\* queue.splice(0, 15)
IndexBatchSize == Min(15, MaxBatch)
\* const batchSize = 10
QueryBatchSize == Min(10, MaxBatch)
\* buildFolderStructureBulk(rootFolderId, maxDepth = 6)
DefaultMaxDepth == 6
\* pageSize: 1000 of the global listing; only the first page is read
GlobalPageSize == 1000

None == "none"
\* two HTTP requests served concurrently by the one service instance
Requests == {"req1", "req2"}
\* pageToken / nextPageToken absent (null)
NoToken == 0
\* process.env.GOOGLE_DRIVE_FOLDER_ID
ThisFolderId == "R"
\* the query string of the searches
Query == "x"

(***************************************************************************)
(* The remote store.  A drive gives its node ids in the order listings     *)
(* return them, each node's ordered parent list (parents[0] first), its    *)
(* name, the set of folders, and the folder ids a caller searches from.    *)
(***************************************************************************)
\* root R with A/x.pdf and B/report-x.pdf, and an unrelated C/x.pdf
DriveScenario ==
  [ nodes   |-> <<"R", "A", "B", "C", "ax", "bx", "cx">>,
    parents |-> [R |-> <<>>, A |-> <<"R">>, B |-> <<"R">>, C |-> <<>>,
                 ax |-> <<"A">>, bx |-> <<"B">>, cx |-> <<"C">>],
    name    |-> [R |-> "R", A |-> "A", B |-> "B", C |-> "C",
                 ax |-> "x.pdf", bx |-> "report-x.pdf", cx |-> "x.pdf"],
    folders |-> {"R", "A", "B", "C"},
    roots   |-> {"R", "A"} ]

\* folders with two parents: P in A and B, S in C (outside R) and A
DriveShared ==
  [ nodes   |-> <<"R", "A", "B", "C", "P", "S", "ax", "px", "sx">>,
    parents |-> [R |-> <<>>, A |-> <<"R">>, B |-> <<"R">>, C |-> <<>>,
                 P |-> <<"A", "B">>, S |-> <<"C", "A">>,
                 ax |-> <<"A">>, px |-> <<"P">>, sx |-> <<"S">>],
    name    |-> [R |-> "R", A |-> "A", B |-> "B", C |-> "C",
                 P |-> "P", S |-> "S",
                 ax |-> "x.csv", px |-> "x.txt", sx |-> "x.doc"],
    folders |-> {"R", "A", "B", "C", "P", "S"},
    roots   |-> {"R", "B"} ]

\* a folder P with two parents (A and R) that has a subfolder F of its own
DriveNested ==
  [ nodes   |-> <<"R", "A", "P", "F", "fx">>,
    parents |-> [R |-> <<>>, A |-> <<"R">>, P |-> <<"A", "R">>,
                 F |-> <<"P">>, fx |-> <<"F">>],
    name    |-> [R |-> "R", A |-> "A", P |-> "P", F |-> "F", fx |-> "x.txt"],
    folders |-> {"R", "A", "P", "F"},
    roots   |-> {"R", "A"} ]

\* a tree four levels deep, wider than one batch at depth 1
DriveDeep ==
  [ nodes   |-> <<"R", "a", "b", "c", "u", "p", "w", "z", "y", "yx">>,
    parents |-> [R |-> <<>>, a |-> <<"R">>, b |-> <<"R">>, c |-> <<"R">>,
                 u |-> <<"a">>, p |-> <<"b">>, w |-> <<"c">>,
                 z |-> <<"u">>, y |-> <<"z">>, yx |-> <<"y">>],
    name    |-> [R |-> "R", a |-> "a", b |-> "b", c |-> "c",
                 u |-> "u", p |-> "p", w |-> "w", z |-> "z", y |-> "y",
                 yx |-> "x.md"],
    folders |-> {"R", "a", "b", "c", "u", "p", "w", "z", "y"},
    roots   |-> {"R"} ]

\* a root with more children, and more matches, than one page holds
DriveWide ==
  [ nodes   |-> <<"R", "A", "B", "x1", "x2", "x3", "x4">>,
    parents |-> [R |-> <<>>, A |-> <<"R">>, B |-> <<"R">>,
                 x1 |-> <<"R">>, x2 |-> <<"R">>, x3 |-> <<"R">>,
                 x4 |-> <<"A">>],
    name    |-> [R |-> "R", A |-> "A", B |-> "b-x", x1 |-> "x1.pdf",
                 x2 |-> "x2.pdf", x3 |-> "x3.pdf", x4 |-> "x4.pdf"],
    folders |-> {"R", "A", "B"},
    roots   |-> {"R", "A"} ]

\* a level of four folders, one subfolder P shared by a and b
DriveLevel ==
  [ nodes   |-> <<"R", "a", "b", "c", "d", "P", "px", "cx", "dx", "rx">>,
    parents |-> [R |-> <<>>, a |-> <<"R">>, b |-> <<"R">>, c |-> <<"R">>,
                 d |-> <<"R">>, P |-> <<"a", "b">>, px |-> <<"P">>,
                 cx |-> <<"c">>, dx |-> <<"d">>, rx |-> <<"R">>],
    name    |-> [R |-> "R", a |-> "a", b |-> "b", c |-> "c", d |-> "d",
                 P |-> "P", px |-> "px.pdf", cx |-> "cx.pdf",
                 dx |-> "DX.PDF", rx |-> "rx.pdf"],
    folders |-> {"R", "a", "b", "c", "d", "P"},
    roots   |-> {"R"} ]

\* two folders below the root, each with two subfolders
DriveBushy ==
  [ nodes   |-> <<"R", "a", "b", "u", "v", "p", "q", "ux">>,
    parents |-> [R |-> <<>>, a |-> <<"R">>, b |-> <<"R">>, u |-> <<"a">>,
                 v |-> <<"a">>, p |-> <<"b">>, q |-> <<"b">>, ux |-> <<"u">>],
    name    |-> [R |-> "R", a |-> "a", b |-> "b", u |-> "u", v |-> "v",
                 p |-> "p", q |-> "q", ux |-> "x.txt"],
    folders |-> {"R", "a", "b", "u", "v", "p", "q"},
    roots   |-> {"R", "a"} ]

\* the stores searched by searchFiles
Drives == {DriveScenario, DriveShared}
\* the stores indexed by buildFolderStructureBulk called on its own
BuildDrives == {DriveNested, DriveDeep}
\* the stores listed by the single listing calls
ListDrives == {DriveWide, DriveScenario}
\* the stores browsed by the public dashboard
ClientDrives == {DriveLevel, DriveShared}
\* the stores whose items concurrent requests check for ancestry
AncestryDrives == {DriveScenario, DriveShared}
\* the stores searched by searchFilesRecursive called on its own
NaiveDrives == {DriveBushy, DriveScenario}

VARIABLES
  drive,            \* the remote store (never mutated by the service)
  folderCache,      \* this.folderCache: <<itemId, rootFolderId>> -> boolean
  pathCache,        \* this.pathCache: folderId -> path
  pc,               \* position of the running call
  op,               \* "search" (searchFiles) or "build" (buildFolderStructureBulk)
  root,             \* targetFolderId / rootFolderId
  maxDepth,         \* maxDepth of the running index build
  opCount,          \* calls started so far
  allItems,         \* globalDriveSearch: items still to be filtered
  validItems,       \* globalDriveSearch: validItems
  queue,            \* buildFolderStructureBulk: queue
  currentBatch,     \* buildFolderStructureBulk: currentBatch
  pending,          \* indices of currentBatch whose listing is outstanding
  folderStructure,  \* buildFolderStructureBulk: folderStructure (a Map)
  fsKeys,           \* insertion order of the keys of folderStructure
  qpos,             \* optimizedRecursiveSearch: i (1-based)
  qBatch,           \* optimizedRecursiveSearch: batch
  qPending,         \* indices of qBatch whose query is outstanding
  batchResults,     \* results of the completed queries of qBatch
  allResults,       \* optimizedRecursiveSearch: allResults
  results,          \* value returned by the call
  globalOutcome,    \* history: "none", "ok" or "error"
  ranIndexed,       \* history: optimizedRecursiveSearch was entered
  listed,           \* history: child-folder listings issued, [id, depth]
  discovered,       \* history: entries ever put on the queue, [id, depth]
  failedFolders,    \* history: folders whose per-folder query failed
  failedListings,   \* history: folders whose child-folder listing failed
  relisted,         \* history: folders whose children were listed again
  pathFails,        \* history: [folder, path] resolved while a fetch failed
  fails,            \* history: remote calls of this call that failed
  failCount,        \* history: remote calls that failed since construction
  runs              \* history: completed searchFiles calls since clearCaches

cacheVars  == <<folderCache, pathCache>>
ctlVars    == <<pc, op, root, maxDepth, opCount>>
globalVars == <<allItems, validItems>>
buildVars  == <<queue, currentBatch, pending, folderStructure, fsKeys>>
queryVars  == <<qpos, qBatch, qPending, batchResults, allResults>>
histVars   == <<globalOutcome, ranIndexed, listed, discovered, failedFolders,
                failedListings, relisted, pathFails, fails, failCount, runs>>
\* the service of server/services/googleDriveService.js
serviceVars == <<cacheVars, ctlVars, globalVars, buildVars, queryVars,
                 results, histVars>>

VARIABLES
  lsPc,             \* a single listing call: "idle", "paging", "done", "failed"
  lsOp,             \* which listing call is running
  lsFolder,         \* its folder argument
  lsPageToken,      \* fetchDirectChildren: pageToken
  lsFiles,          \* the files accumulated / returned by the listing
  lsDenied          \* history: the listing was answered 401

listVars == <<lsPc, lsOp, lsFolder, lsPageToken, lsFiles, lsDenied>>

VARIABLES
  cPc,              \* searchAllFiles: "idle", "loop", "done"
  cCurrentBatch,    \* searchAllFiles: currentBatch, entries [id, path]
  cBatch,           \* searchAllFiles: batch
  cPending,         \* indices of batch whose task awaits its folder contents
  cBatchResults,    \* index of batch -> [results, subfolders] of its task
  cProcessed,       \* searchAllFiles: processedFolders
  cFolderCache,     \* searchAllFiles: folderCache
  cAllResults,      \* searchAllFiles: allResults, entries [id, path]
  cBatchNumber,     \* searchAllFiles: batchNumber
  cFetchLog,        \* history: folder ids whose contents were requested
  cFailed           \* history: a request for folder contents failed

clientVars == <<cPc, cCurrentBatch, cBatch, cPending, cBatchResults,
                cProcessed, cFolderCache, cAllResults, cBatchNumber,
                cFetchLog, cFailed>>

VARIABLES
  wPc,              \* per request: "idle", "fetch", "return", "done"
  wRoot,            \* per request: rootFolderId of its isDescendantOf call
  wStack,           \* per request: itemIds of the frames that are suspended
  wRes,             \* per request: the value being returned
  wRemote,          \* history: files.get calls issued by the call
  wLater,           \* history: the call began after false was stored
  aNeg              \* history: keys stored false for a missing parent/failure

ancVars == <<wPc, wRoot, wStack, wRes, wRemote, wLater, aNeg>>

VARIABLES
  nCalls            \* searchFilesRecursive: invocation (path of ids) -> frame

naiveVars == <<nCalls>>

VARIABLES
  saCalls,          \* searchAllFolders: invocation (path of ids) -> frame
  visited,          \* searchAllFolders: visited, shared by the invocations
  saCollected,      \* history: ids put into an allResults by this search
  saDenied,         \* history: a response of this search was a 401
  saOther           \* history: a request of this search failed otherwise

folderSearchVars == <<saCalls, visited, saCollected, saDenied, saOther>>

VARIABLES
  uiComp,           \* the mounted component, None before it is mounted
  uiQuery,          \* searchQuery
  uiTimer,          \* the query the pending debounce timer will search
  uiRuns,           \* invocation number -> query of the searches in flight
  uiIssued,         \* number of searches started
  uiTyped,          \* number of input events handled
  uiResults,        \* searchResults
  uiShown,          \* history: the search whose results are in searchResults
  uiLatestDone,     \* history: the latest-issued search that has delivered
  uiCache           \* sessionStorage: 'search_' + query -> results

uiVars == <<uiComp, uiQuery, uiTimer, uiRuns, uiIssued, uiTyped, uiResults,
            uiShown, uiLatestDone, uiCache>>

VARIABLES
  localStorage,     \* window.localStorage: key -> stored string
  stLastSet,        \* history: [key, value] of the latest setItem
  stGot,            \* history: [key, value, afterSet] of the latest getItem
  stOps             \* number of storage calls made

storageVars == <<localStorage, stLastSet, stGot, stOps>>

VARIABLES
  isRefreshing,     \* component -> isRefreshingRef.current
  rf,               \* <<component, caller>> -> its refreshAccessToken call
  hasInterval,      \* component -> intervalRef.current holds a timer
  srvValid,         \* the access tokens Google accepts
  srvIssued,        \* number of access tokens Google has issued
  user,             \* UserContext: user
  isAuthenticated,  \* AppContent: isAuthenticated
  aPc,              \* AppContent: position of initializeApp
  aCode,            \* AppContent: location.state carries an OAuth code
  aTokens,          \* AppContent: the tokens validateAndRefreshToken read
  authOps,          \* number of user and timer events handled
  loggedOut,        \* history: an admin logged out, nobody logged in since
  autoFail,         \* history: storage around the latest failed automatic
                    \* refresh
  rSkipped          \* history: component -> a refresh was skipped

VARIABLES
  dMounted,         \* the dashboard is mounted
  dAccess,          \* dashboard: accessToken
  dRefresh,         \* dashboard: refreshToken
  dLoggingOut,      \* dashboard: handleTokenExpired's redirect is pending
  fCalls,           \* fetchFiles: call number -> frame
  fIssued,          \* number of fetchFiles calls made by effects
  fListed           \* history: a listing was shown

dashVars == <<dMounted, dAccess, dRefresh, dLoggingOut, fCalls, fIssued,
              fListed>>

authVars == <<isRefreshing, rf, hasInterval, srvValid, srvIssued, user,
              isAuthenticated, aPc, aCode, aTokens, authOps, loggedOut,
              autoFail, rSkipped, dashVars>>

\* the browser-side components and services
moreVars == <<folderSearchVars, uiVars, storageVars, authVars>>

extVars == <<listVars, clientVars, ancVars, naiveVars, moreVars>>

vars == <<drive, serviceVars, extVars>>

\* the components that refresh access tokens
AuthComponents == {"app", "dashboard"}

\* who calls refreshAccessToken: the 50-minute timer, or a request flow
RefreshCallers == {"interval", "api"}

NoFrame == [pc |-> "none", arg |-> None, stage |-> "none"]

NoUser == [set |-> FALSE, email |-> None, role |-> None]

NoTokens == [accessToken |-> None, refreshToken |-> None]

(***************************************************************************)
(* Helpers on sequences, maps and the store.                               *)
(***************************************************************************)
Range(s) == {s[i] : i \in DOMAIN s}

EmptyMap == [k \in {} |-> None]

MapSetAlone(m, k, v) == [x \in {k} |-> v]

\* Map.prototype.set: overwrites the value of an existing key
MapSet(m, k, v) == [x \in DOMAIN m \cup {k} |-> IF x = k THEN v ELSE m[x]]

NodeSet == Range(drive.nodes)

\* parents?.[0]
PrimaryParent(n) ==
  IF drive.parents[n] = <<>> THEN None ELSE drive.parents[n][1]

\* name contains 'query'
Contains(s, q) ==
  \E i \in 1..Len(s) :
     /\ i + Len(q) - 1 <= Len(s)
     /\ SubSeq(s, i, i + Len(q) - 1) = q

IsFolder(n) == n \in drive.folders

\* files.list with q = "'<id>' in parents and mimeType = folder"
ChildFolders(id) ==
  SelectSeq(drive.nodes,
            LAMBDA n : id \in Range(drive.parents[n]) /\ IsFolder(n))

\* files.list with q = "name contains '<query>' and '<id>' in parents"
MatchesIn(id) ==
  SelectSeq(drive.nodes,
            LAMBDA n : id \in Range(drive.parents[n])
                       /\ Contains(drive.name[n], Query))

\* files.list with q = "name contains '<query>'", first page only
GlobalMatches ==
  LET all == SelectSeq(drive.nodes, LAMBDA n : Contains(drive.name[n], Query))
  IN  SubSeq(all, 1, Min(Len(all), GlobalPageSize))

\* the nodes a parent walk from n fetches: n, parents[0] of n, ...
RECURSIVE PrimaryChain(_)
PrimaryChain(n) ==
  IF n = None THEN {}
  ELSE {n} \cup PrimaryChain(PrimaryParent(n))

\* path === '/' ? `/${name}` : `${path}/${name}`
JoinPath(path, name) ==
  IF path = "/" THEN "/" \o name ELSE path \o "/" \o name

(***************************************************************************)
(* isDescendantOf(itemId, rootFolderId).  failAt is the node whose         *)
(* files.get fails during this walk (None: no fetch fails); the walk ends  *)
(* at the first failing fetch, so one node describes every outcome.        *)
(* Returns the answer, the folderCache after the walk and whether a fetch  *)
(* failed.                                                                 *)
(***************************************************************************)
\* the boolean memoized after the recursive check of the parent
MemoFalse(result) == FALSE

Memo(result) == result

AnyParentIsRoot(itemId, rootFolderId) ==
  rootFolderId \in Range(drive.parents[itemId])

\* isDescendantOf: parentId === rootFolderId, parentId being parents[0]
ParentIsRoot(itemId, rootFolderId) == PrimaryParent(itemId) = rootFolderId

RECURSIVE IsDescendantOf(_, _, _, _)
IsDescendantOf(cache, itemId, rootFolderId, failAt) ==
  LET cacheKey == <<itemId, rootFolderId>> IN
  IF itemId = rootFolderId
    THEN [res |-> TRUE, cache |-> cache, failed |-> FALSE]
  ELSE IF cacheKey \in DOMAIN cache
    THEN [res |-> cache[cacheKey], cache |-> cache, failed |-> FALSE]
  ELSE IF itemId = failAt
    THEN [res |-> FALSE, cache |-> MapSet(cache, cacheKey, FALSE),
          failed |-> TRUE]
  ELSE IF drive.parents[itemId] = <<>>
    THEN [res |-> FALSE, cache |-> MapSet(cache, cacheKey, FALSE),
          failed |-> FALSE]
  ELSE IF ParentIsRoot(itemId, rootFolderId)
    THEN [res |-> TRUE, cache |-> MapSet(cache, cacheKey, TRUE),
          failed |-> FALSE]
  ELSE LET r == IsDescendantOf(cache, PrimaryParent(itemId), rootFolderId,
                               failAt)
       IN  [res |-> r.res, cache |-> MapSet(r.cache, cacheKey, Memo(r.res)),
            failed |-> r.failed]

(***************************************************************************)
(* buildFilePath(folderId): the walk up to this.folderId; a failing fetch  *)
(* yields '/unknown' for the node it was issued for.                       *)
(***************************************************************************)
RECURSIVE BuildFilePath(_, _)
BuildFilePath(folderId, failAt) ==
  IF folderId = None \/ folderId = ThisFolderId
    THEN [path |-> "/", failed |-> FALSE]
  ELSE IF folderId = failAt
    THEN [path |-> "/unknown", failed |-> TRUE]
  ELSE LET parent == IF PrimaryParent(folderId) # None
                       THEN BuildFilePath(PrimaryParent(folderId), failAt)
                       ELSE [path |-> "/", failed |-> FALSE]
       IN  [path |-> JoinPath(parent.path, drive.name[folderId]),
            failed |-> parent.failed]

\* getOptimizedPath(folderId)
GetOptimizedPath(cache, folderId, failAt) ==
  IF folderId = None \/ folderId = ThisFolderId
    THEN [path |-> "/", cache |-> cache, failed |-> FALSE]
  ELSE IF folderId \in DOMAIN cache
    THEN [path |-> cache[folderId], cache |-> cache, failed |-> FALSE]
  ELSE LET b == BuildFilePath(folderId, failAt)
       IN  [path |-> b.path, cache |-> MapSet(cache, folderId, b.path),
            failed |-> b.failed]

(***************************************************************************)
(* Decisions of searchFiles and searchInSingleFolder.                      *)
(***************************************************************************)
GlobalAcceptedAlways(globalResults) == Len(globalResults) >= 0

\* searchFiles: if (globalResults.length > 0) return globalResults
GlobalAccepted(globalResults) == Len(globalResults) > 0

OnGlobalErrorRethrow == "failed"

\* searchFiles: catch around globalDriveSearch logs and goes on to strategy 2
OnGlobalError == "indexed"

SearchInSingleFolderThrows(folderId, ok) ==
  IF ok THEN [threw |-> FALSE, items |-> MatchesIn(folderId)]
        ELSE [threw |-> TRUE, items |-> <<>>]

\* searchInSingleFolder: the listing's items, or [] when the listing throws
SearchInSingleFolder(folderId, ok) ==
  IF ok THEN [threw |-> FALSE, items |-> MatchesIn(folderId)]
        ELSE [threw |-> FALSE, items |-> <<>>]

\* optimizedRecursiveSearch step 3: pathCache.get(item.parents?.[0]) || '/'
WithPath(cache, id) ==
  [id |-> id,
   path |-> IF PrimaryParent(id) \in DOMAIN cache
              THEN cache[PrimaryParent(id)] ELSE "/"]

Ids(rs) == {rs[i].id : i \in DOMAIN rs}

(***************************************************************************)
(* Initial state: a freshly constructed service, no call running.          *)
(***************************************************************************)
InitWith(stores) ==
  /\ drive \in stores
  /\ folderCache = EmptyMap
  /\ pathCache = EmptyMap
  /\ pc = "idle" /\ op = "none" /\ root = None /\ maxDepth = 0 /\ opCount = 0
  /\ allItems = <<>> /\ validItems = <<>>
  /\ queue = <<>> /\ currentBatch = <<>> /\ pending = {}
  /\ folderStructure = EmptyMap /\ fsKeys = <<>>
  /\ qpos = 1 /\ qBatch = <<>> /\ qPending = {} /\ batchResults = EmptyMap
  /\ allResults = <<>>
  /\ results = <<>>
  /\ globalOutcome = "none" /\ ranIndexed = FALSE
  /\ listed = {} /\ discovered = {} /\ failedFolders = {}
  /\ failedListings = {} /\ relisted = {} /\ pathFails = {}
  /\ fails = 0 /\ failCount = 0 /\ runs = <<>>
  /\ lsPc = "idle" /\ lsOp = "none" /\ lsFolder = None /\ lsPageToken = NoToken
  /\ lsFiles = <<>> /\ lsDenied = FALSE
  /\ cPc = "idle" /\ cCurrentBatch = <<>> /\ cBatch = <<>> /\ cPending = {}
  /\ cBatchResults = EmptyMap /\ cProcessed = {} /\ cFolderCache = EmptyMap
  /\ cAllResults = <<>> /\ cBatchNumber = 1 /\ cFetchLog = <<>>
  /\ cFailed = FALSE
  /\ wPc = [p \in Requests |-> "idle"] /\ wRoot = [p \in Requests |-> None]
  /\ wStack = [p \in Requests |-> <<>>] /\ wRes = [p \in Requests |-> FALSE]
  /\ wRemote = [p \in Requests |-> 0] /\ wLater = [p \in Requests |-> FALSE]
  /\ aNeg = {}
  /\ nCalls = EmptyMap
  /\ saCalls = EmptyMap /\ visited = {} /\ saCollected = {}
  /\ saDenied = FALSE /\ saOther = FALSE
  /\ uiComp = None /\ uiQuery = "" /\ uiTimer = None /\ uiRuns = EmptyMap
  /\ uiIssued = 0 /\ uiTyped = 0 /\ uiResults = <<>>
  /\ uiShown = [n |-> 0, query |-> ""] /\ uiLatestDone = 0
  /\ uiCache = EmptyMap
  /\ localStorage = EmptyMap /\ stOps = 0
  /\ stLastSet = [key |-> None, value |-> None]
  /\ stGot = [key |-> None, value |-> None, afterSet |-> FALSE]
  /\ isRefreshing = [c \in AuthComponents |-> FALSE]
  /\ rf = [ck \in AuthComponents \X RefreshCallers |-> NoFrame]
  /\ hasInterval = [c \in AuthComponents |-> FALSE]
  /\ srvValid = {} /\ srvIssued = 0
  /\ user = NoUser /\ isAuthenticated = FALSE
  /\ aPc = "boot" /\ aCode = FALSE /\ aTokens = NoTokens
  /\ authOps = 0 /\ loggedOut = FALSE
  /\ autoFail = [seen |-> FALSE, before |-> EmptyMap, after |-> EmptyMap,
                 user |-> NoUser]
  /\ rSkipped = [c \in AuthComponents |-> FALSE]
  /\ dMounted = FALSE /\ dAccess = None /\ dRefresh = None
  /\ dLoggingOut = FALSE /\ fCalls = EmptyMap /\ fIssued = 0
  /\ fListed = FALSE

\* the service serving searches
Init == InitWith(Drives)

\* the service used only to build folder indexes
InitBuild == InitWith(BuildDrives)

(***************************************************************************)
(* searchFiles(query, folderId): entry.                                    *)
(***************************************************************************)
SearchFiles(folderId) ==
  /\ pc = "idle" /\ opCount < MaxSearches
  /\ pc' = "global" /\ op' = "search"
  /\ root' = IF folderId = None THEN ThisFolderId ELSE folderId
  /\ opCount' = opCount + 1
  /\ UNCHANGED <<drive, cacheVars, maxDepth, globalVars, buildVars, queryVars,
                 results, histVars>>
  /\ UNCHANGED extVars

\* buildFolderStructureBulk: the locals before the first loop iteration
StartBuild(rootFolderId, md) ==
  /\ queue' = <<[id |-> rootFolderId, depth |-> 0, path |-> "/"]>>
  /\ currentBatch' = <<>> /\ pending' = {}
  /\ folderStructure' = EmptyMap /\ fsKeys' = <<>>
  /\ maxDepth' = md
  /\ listed' = {} /\ relisted' = {}
  /\ discovered' = {[id |-> rootFolderId, depth |-> 0]}

\* searchFiles: strategy 2 is entered
StartIndexed ==
  /\ pc' = "build" /\ ranIndexed' = TRUE
  /\ StartBuild(root, DefaultMaxDepth)

(***************************************************************************)
(* globalDriveSearch: the wide listing, then the ancestry filter item by   *)
(* item, then the decision of searchFiles on the result.                   *)
(***************************************************************************)
GlobalList(ok) ==
  /\ pc = "global"
  /\ IF ok
       THEN /\ pc' = "filter"
            /\ allItems' = GlobalMatches /\ validItems' = <<>>
            /\ UNCHANGED <<buildVars, maxDepth, globalOutcome, ranIndexed,
                           listed, relisted, discovered, fails>>
       ELSE /\ failCount < MaxFailures
            /\ globalOutcome' = "error" /\ fails' = fails + 1
            /\ UNCHANGED globalVars
            /\ IF OnGlobalError = "indexed"
                 THEN StartIndexed
                 ELSE /\ pc' = "failed"
                      /\ UNCHANGED <<buildVars, maxDepth, ranIndexed, listed,
                                     relisted, discovered>>
  /\ failCount' = failCount + (fails' - fails)
  /\ UNCHANGED <<drive, cacheVars, op, root, opCount, queryVars, results,
                 failedFolders, failedListings, pathFails, runs>>
  /\ UNCHANGED extVars

GlobalFilterItem(failDesc, failPath) ==
  /\ pc = "filter" /\ allItems # <<>>
  /\ LET item == Head(allItems)
         d    == IsDescendantOf(folderCache, item, root, failDesc)
         g    == GetOptimizedPath(pathCache, PrimaryParent(item), failPath)
     IN  /\ failDesc \in PrimaryChain(item) \cup {None}
         /\ folderCache' = d.cache
         /\ IF d.res
              THEN /\ failPath \in PrimaryChain(PrimaryParent(item)) \cup {None}
                   /\ pathCache' = g.cache
                   /\ validItems' =
                        Append(validItems, [id |-> item, path |-> g.path])
                   /\ fails' = fails + Bit(d.failed) + Bit(g.failed)
                   /\ pathFails' =
                        IF g.failed
                          THEN pathFails \cup {[folder |-> PrimaryParent(item),
                                                path   |-> g.path]}
                          ELSE pathFails
              ELSE /\ failPath = None
                   /\ UNCHANGED <<pathCache, validItems, pathFails>>
                   /\ fails' = fails + Bit(d.failed)
  /\ failCount' = failCount + (fails' - fails)
  /\ failCount' <= MaxFailures
  /\ allItems' = Tail(allItems)
  /\ UNCHANGED <<drive, ctlVars, buildVars, queryVars, results, globalOutcome,
                 ranIndexed, listed, relisted, discovered, failedFolders,
                 failedListings, runs>>
  /\ UNCHANGED extVars

GlobalFinish ==
  /\ pc = "filter" /\ allItems = <<>>
  /\ globalOutcome' = "ok"
  /\ IF GlobalAccepted(validItems)
       THEN /\ pc' = "done" /\ results' = validItems
            /\ UNCHANGED <<buildVars, maxDepth, ranIndexed, listed, relisted,
                           discovered>>
       ELSE /\ StartIndexed
            /\ UNCHANGED results
  /\ UNCHANGED <<drive, cacheVars, op, root, opCount, globalVars, queryVars,
                 failedFolders, failedListings, pathFails, fails, failCount, runs>>
  /\ UNCHANGED extVars

(***************************************************************************)
(* buildFolderStructureBulk(rootFolderId, maxDepth) called on its own.     *)
(***************************************************************************)
BuildFolderStructureBulk(rootFolderId, md) ==
  /\ pc = "idle" /\ opCount < MaxSearches
  /\ pc' = "build" /\ op' = "build" /\ root' = rootFolderId
  /\ opCount' = opCount + 1
  /\ StartBuild(rootFolderId, md)
  /\ UNCHANGED <<drive, cacheVars, globalVars, queryVars, results,
                 globalOutcome, ranIndexed, failedFolders, failedListings,
                 pathFails, fails, failCount, runs>>
  /\ UNCHANGED extVars

\* the while loop has ended (queue empty, or break): return folderStructure
BuildReturn ==
  IF op = "search"
    THEN /\ pc' = "query"
         /\ qpos' = 1 /\ qBatch' = <<>> /\ qPending' = {}
         /\ batchResults' = EmptyMap /\ allResults' = <<>>
    ELSE /\ pc' = "done"
         /\ UNCHANGED queryVars

SliceLeaves(q, n) == q

\* queue.splice(0, 15): what is left in queue once the batch is taken out
SpliceLeaves(q, n) == SubSeq(q, n + 1, Len(q))

\* one loop iteration up to the point where the batch's listings are issued
BuildTakeBatch ==
  /\ pc = "build" /\ pending = {}
  /\ IF queue = <<>>
       THEN /\ BuildReturn
            /\ UNCHANGED <<queue, currentBatch, pending, listed, relisted>>
       ELSE LET n     == Min(Len(queue), IndexBatchSize)
                batch == SubSeq(queue, 1, n)
            IN  /\ queue' = SpliceLeaves(queue, n)
                /\ currentBatch' = batch
                /\ IF batch[1].depth >= maxDepth
                     THEN /\ BuildReturn
                          /\ UNCHANGED <<pending, listed, relisted>>
                     ELSE /\ pending' = DOMAIN batch
                          /\ listed' = listed \cup
                               {[id |-> batch[i].id, depth |-> batch[i].depth] :
                                  i \in DOMAIN batch}
                          /\ relisted' = relisted \cup
                               {batch[i].id : i \in
                                  {k \in DOMAIN batch :
                                     \/ \E l \in listed : l.id = batch[k].id
                                     \/ \E j \in 1..(k - 1) :
                                           batch[j].id = batch[k].id}}
                          /\ UNCHANGED <<pc, queryVars>>
  /\ UNCHANGED <<drive, cacheVars, op, root, maxDepth, opCount, globalVars,
                 folderStructure, fsKeys, results, globalOutcome, ranIndexed,
                 discovered, failedFolders, failedListings, pathFails, fails,
                 failCount, runs>>
  /\ UNCHANGED extVars

ListErrorRethrown == FALSE

\* buildFolderStructureBulk: the catch inside the batch callback returns 0
ListErrorCaught == TRUE

\* the listing of currentBatch[i] completes (ok) or throws (~ok)
BuildListDone(i, ok) ==
  /\ pc = "build" /\ i \in pending
  /\ pending' = pending \ {i}
  /\ LET e       == currentBatch[i]
         folders == ChildFolders(e.id)
         subs    == [k \in DOMAIN folders |->
                       [id    |-> folders[k],
                        depth |-> e.depth + 1,
                        path  |-> JoinPath(e.path, drive.name[folders[k]])]]
     IN  IF ok
           THEN /\ folderStructure' =
                     MapSet(folderStructure, e.id,
                            [folders |-> folders, path |-> e.path,
                             depth |-> e.depth])
                /\ fsKeys' = IF e.id \in DOMAIN folderStructure
                               THEN fsKeys ELSE Append(fsKeys, e.id)
                /\ pathCache' = MapSet(pathCache, e.id, e.path)
                /\ queue' = queue \o subs
                /\ discovered' = discovered \cup
                     {[id |-> subs[k].id, depth |-> subs[k].depth] :
                        k \in DOMAIN subs}
                /\ UNCHANGED <<pc, fails, failedListings>>
           ELSE /\ failCount < MaxFailures
                /\ fails' = fails + 1
                /\ failedListings' = failedListings \cup {e.id}
                /\ pc' = IF ListErrorCaught THEN pc ELSE "failed"
                /\ UNCHANGED <<folderStructure, fsKeys, pathCache, queue,
                               discovered>>
  /\ failCount' = failCount + (fails' - fails)
  /\ UNCHANGED <<drive, folderCache, op, root, maxDepth, opCount, globalVars,
                 currentBatch, queryVars, results, globalOutcome, ranIndexed,
                 listed, relisted, failedFolders, pathFails, runs>>
  /\ UNCHANGED extVars

(***************************************************************************)
(* optimizedRecursiveSearch, steps 2 and 3.                                *)
(***************************************************************************)
RECURSIVE Flatten(_, _)
Flatten(m, n) == IF n = 0 THEN <<>> ELSE Flatten(m, n - 1) \o m[n]

\* one loop iteration up to the point where the batch's queries are issued,
\* or, after the last batch, step 3 and the return
QueryTakeBatch ==
  /\ pc = "query" /\ qPending = {}
  /\ IF qpos > Len(fsKeys)
       THEN /\ results' = [k \in DOMAIN allResults |->
                             WithPath(pathCache, allResults[k])]
            /\ pc' = "done"
            /\ UNCHANGED queryVars
       ELSE /\ qBatch' = SubSeq(fsKeys, qpos,
                                Min(qpos + QueryBatchSize - 1, Len(fsKeys)))
            /\ qPending' = DOMAIN qBatch'
            /\ batchResults' = EmptyMap
            /\ qpos' = qpos + QueryBatchSize
            /\ UNCHANGED <<pc, allResults, results>>
  /\ UNCHANGED <<drive, cacheVars, op, root, maxDepth, opCount, globalVars,
                 buildVars, histVars>>
  /\ UNCHANGED extVars

\* searchInSingleFolder(query, qBatch[i]) settles
QueryDone(i, ok) ==
  /\ pc = "query" /\ i \in qPending
  /\ LET r == SearchInSingleFolder(qBatch[i], ok)
     IN  IF r.threw
           THEN \* Promise.all rejects; searchFiles rethrows
                /\ pc' = "failed"
                /\ UNCHANGED <<qPending, batchResults, allResults>>
           ELSE /\ batchResults' = MapSet(batchResults, i, r.items)
                /\ qPending' = qPending \ {i}
                /\ allResults' = IF qPending' = {}
                                   THEN allResults \o
                                        Flatten(batchResults', Len(qBatch))
                                   ELSE allResults
                /\ UNCHANGED pc
  /\ failedFolders' = IF ok THEN failedFolders
                            ELSE failedFolders \cup {qBatch[i]}
  /\ ok \/ failCount < MaxFailures
  /\ fails' = fails + Bit(~ok)
  /\ failCount' = failCount + Bit(~ok)
  /\ UNCHANGED <<drive, cacheVars, op, root, maxDepth, opCount, globalVars,
                 buildVars, qpos, qBatch, results, globalOutcome, ranIndexed,
                 listed, relisted, discovered, failedListings, pathFails, runs>>
  /\ UNCHANGED extVars

(***************************************************************************)
(* The call returns to its caller; its locals are dropped.                 *)
(***************************************************************************)
Return ==
  /\ pc \in {"done", "failed"}
  /\ pc' = "idle" /\ op' = "none" /\ root' = None /\ maxDepth' = 0
  /\ runs' = IF op = "search"
               THEN Append(runs, [root |-> root, ids |-> Ids(results),
                                  ok |-> (pc = "done"), failed |-> (fails > 0),
                                  indexed |-> ranIndexed])
               ELSE runs
  /\ allItems' = <<>> /\ validItems' = <<>>
  /\ queue' = <<>> /\ currentBatch' = <<>> /\ pending' = {}
  /\ folderStructure' = EmptyMap /\ fsKeys' = <<>>
  /\ qpos' = 1 /\ qBatch' = <<>> /\ qPending' = {} /\ batchResults' = EmptyMap
  /\ allResults' = <<>>
  /\ results' = <<>>
  /\ globalOutcome' = "none" /\ ranIndexed' = FALSE
  /\ listed' = {} /\ discovered' = {} /\ failedFolders' = {}
  /\ failedListings' = {} /\ relisted' = {} /\ pathFails' = {}
  /\ fails' = 0
  /\ UNCHANGED <<drive, cacheVars, opCount, failCount>>
  /\ UNCHANGED extVars

\* clearCaches()
ClearCaches ==
  /\ pc = "idle"
  /\ folderCache' = EmptyMap
  /\ pathCache' = EmptyMap
  /\ runs' = <<>>
  /\ UNCHANGED <<drive, ctlVars, globalVars, buildVars, queryVars, results,
                 globalOutcome, ranIndexed, listed, relisted, discovered,
                 failedFolders, failedListings, pathFails,
                 fails, failCount>>
  /\ UNCHANGED extVars

Next ==
  \/ \E folderId \in drive.roots \cup {None} : SearchFiles(folderId)
  \/ \E ok \in BOOLEAN : GlobalList(ok)
  \/ \E failDesc \in NodeSet \cup {None}, failPath \in NodeSet \cup {None} :
       GlobalFilterItem(failDesc, failPath)
  \/ GlobalFinish
  \/ BuildTakeBatch
  \/ \E i \in pending, ok \in BOOLEAN : BuildListDone(i, ok)
  \/ QueryTakeBatch
  \/ \E i \in qPending, ok \in BOOLEAN : QueryDone(i, ok)
  \/ Return
  \/ ClearCaches

Spec == Init /\ [][Next]_vars

NextBuild ==
  \/ \E rootFolderId \in drive.roots, md \in 0..MaxDepthArg :
       BuildFolderStructureBulk(rootFolderId, md)
  \/ BuildTakeBatch
  \/ \E i \in pending, ok \in BOOLEAN : BuildListDone(i, ok)
  \/ Return

SpecBuild == InitBuild /\ [][NextBuild]_vars

\* every listing that was issued settles and the loop goes on once the
\* listings of a batch have settled (await Promise.all)
SpecBuildFair ==
  /\ InitBuild /\ [][NextBuild]_vars
  /\ WF_vars(BuildTakeBatch)
  /\ WF_vars(\E i \in pending, ok \in BOOLEAN : BuildListDone(i, ok))

TypeOK ==
  /\ pc \in {"idle", "global", "filter", "build", "query", "done", "failed"}
  /\ op \in {"none", "search", "build"}
  /\ opCount \in 0..(MaxSearches + MaxWalks)
  /\ pending \subseteq DOMAIN currentBatch
  /\ qPending \subseteq DOMAIN qBatch
  /\ DOMAIN folderStructure = Range(fsKeys)

(***************************************************************************)
(* The single listing calls against a store that answers in pages:         *)
(* getFolderContents, the files.list of globalDriveSearch and of           *)
(* searchInSingleFolder (googleDriveService.js) and fetchDirectChildren    *)
(* of the file browser component.                                          *)
(***************************************************************************)
\* files.list without a pageSize parameter: the page size of the store itself
DefaultPageSize == 100
\* pageSize: 1000 of searchInSingleFolder and of the child-folder listing
ServerPageSize == 1000
\* pageSize=100 of fetchDirectChildren
ClientPageSize == 100

PageSize(n) == Min(n, MaxPage)

\* one response of files.list: the page starting at pageToken (NoToken: the
\* first page) and the token of the next page, NoToken after the last one
StorePage(all, pageSize, pageToken) ==
  LET from == IF pageToken = NoToken THEN 1 ELSE pageToken
      to   == Min(Len(all), from + pageSize - 1)
  IN  [files         |-> SubSeq(all, from, to),
       nextPageToken |-> IF to < Len(all) THEN to + 1 ELSE NoToken]

\* q = "'<id>' in parents and trashed=false"
ChildrenOf(id) ==
  SelectSeq(drive.nodes, LAMBDA n : id \in Range(drive.parents[n]))

\* q = "name contains '<query>' and trashed=false"
NameMatches ==
  SelectSeq(drive.nodes, LAMBDA n : Contains(drive.name[n], Query))

UpperChars == "ABCDEFGHIJKLMNOPQRSTUVWXYZ"

LowerChars == "abcdefghijklmnopqrstuvwxyz"

\* characters in collation order: punctuation, digits, letters
CollationOrder == "-./0123456789abcdefghijklmnopqrstuvwxyz"

\* position of the one-character string c in s, 0 when absent
IndexIn(c, s) ==
  IF \E i \in 1..Len(s) : SubSeq(s, i, i) = c
    THEN CHOOSE i \in 1..Len(s) : SubSeq(s, i, i) = c
    ELSE 0

\* String.prototype.toLowerCase
RECURSIVE ToLowerCase(_)
ToLowerCase(s) ==
  IF s = "" THEN ""
  ELSE LET c == SubSeq(s, 1, 1)
           k == IndexIn(c, UpperChars)
       IN  (IF k > 0 THEN SubSeq(LowerChars, k, k) ELSE c)
             \o ToLowerCase(SubSeq(s, 2, Len(s)))

\* a.localeCompare(b) on lower-case names: -1, 0 or 1
RECURSIVE LocaleCompare(_, _)
LocaleCompare(a, b) ==
  IF a = "" /\ b = "" THEN 0
  ELSE IF a = "" THEN -1
  ELSE IF b = "" THEN 1
  ELSE LET ra == IndexIn(SubSeq(a, 1, 1), CollationOrder)
           rb == IndexIn(SubSeq(b, 1, 1), CollationOrder)
       IN  IF ra < rb THEN -1
           ELSE IF ra > rb THEN 1
           ELSE LocaleCompare(SubSeq(a, 2, Len(a)), SubSeq(b, 2, Len(b)))

\* the comparator of sortFiles: folders first, then by lower-case name
SortCompare(a, b) ==
  IF IsFolder(a) /\ ~IsFolder(b) THEN -1
  ELSE IF ~IsFolder(a) /\ IsFolder(b) THEN 1
  ELSE LocaleCompare(ToLowerCase(drive.name[a]), ToLowerCase(drive.name[b]))

\* insert x into the sorted sequence s behind the elements not greater than x
RECURSIVE InsertSorted(_, _)
InsertSorted(s, x) ==
  IF s = <<>> THEN <<x>>
  ELSE IF SortCompare(x, Head(s)) < 0 THEN <<x>> \o s
  ELSE <<Head(s)>> \o InsertSorted(Tail(s), x)

\* sortFiles(files): Array.prototype.sort (stable) with SortCompare
RECURSIVE SortFiles(_)
SortFiles(files) ==
  IF files = <<>> THEN <<>>
  ELSE InsertSorted(SortFiles(SubSeq(files, 1, Len(files) - 1)),
                    files[Len(files)])

\* a listing call is entered
ListEnter(name, folderId) ==
  /\ lsPc = "idle" /\ opCount < MaxSearches
  /\ opCount' = opCount + 1
  /\ lsOp' = name /\ lsFolder' = folderId
  /\ UNCHANGED <<drive, cacheVars, pc, op, root, maxDepth, globalVars,
                 buildVars, queryVars, results, histVars, clientVars,
                 ancVars, naiveVars, moreVars>>

\* getFolderContents(folderId): one files.list, response.data.files
GetFolderContents(folderId, ok) ==
  /\ ListEnter("getFolderContents",
               IF folderId = None THEN ThisFolderId ELSE folderId)
  /\ IF ok
       THEN /\ lsFiles' = StorePage(ChildrenOf(lsFolder'),
                                    PageSize(DefaultPageSize), NoToken).files
            /\ lsPc' = "done"
       ELSE /\ lsFiles' = <<>>
            /\ lsPc' = "failed"
  /\ UNCHANGED <<lsPageToken, lsDenied>>

\* globalDriveSearch: the files.list of the wide name query
GlobalDriveSearchList(ok) ==
  /\ ListEnter("globalDriveSearch", None)
  /\ IF ok
       THEN /\ lsFiles' = StorePage(NameMatches, PageSize(GlobalPageSize),
                                    NoToken).files
            /\ lsPc' = "done"
       ELSE /\ lsFiles' = <<>>
            /\ lsPc' = "failed"
  /\ UNCHANGED <<lsPageToken, lsDenied>>

\* searchInSingleFolder: the files.list of the per-folder name query
SearchInSingleFolderList(folderId, ok) ==
  /\ ListEnter("searchInSingleFolder", folderId)
  /\ lsFiles' = IF ok THEN StorePage(MatchesIn(folderId),
                                     PageSize(ServerPageSize), NoToken).files
                      ELSE <<>>
  /\ lsDenied' = ~ok
  /\ lsPc' = "done"
  /\ UNCHANGED lsPageToken

\* fetchDirectChildren(folderId, token): entry
FetchDirectChildren(folderId) ==
  /\ ListEnter("fetchDirectChildren", folderId)
  /\ lsPc' = "paging"
  /\ lsFiles' = <<>> /\ lsPageToken' = NoToken
  /\ UNCHANGED lsDenied

\* fetchDirectChildren: one iteration of the do/while loop; the response is
\* a page ("ok"), a 401 handled by onInsufficientScopeError ("401"), or
\* another error ("error")
FetchDirectChildrenPage(outcome) ==
  /\ lsPc = "paging"
  /\ LET data == StorePage(ChildrenOf(lsFolder), PageSize(ClientPageSize),
                           lsPageToken)
     IN  CASE outcome = "ok" ->
                /\ lsPageToken' = data.nextPageToken
                /\ IF data.nextPageToken = NoToken
                     THEN /\ lsFiles' = SortFiles(lsFiles \o data.files)
                          /\ lsPc' = "done"
                     ELSE /\ lsFiles' = lsFiles \o data.files
                          /\ lsPc' = "paging"
                /\ UNCHANGED lsDenied
           [] outcome = "401" ->
                /\ lsFiles' = <<>> /\ lsPc' = "done" /\ lsDenied' = TRUE
                /\ UNCHANGED lsPageToken
           [] OTHER ->
                /\ lsFiles' = <<>> /\ lsPc' = "failed"
                /\ UNCHANGED <<lsPageToken, lsDenied>>
  /\ UNCHANGED <<drive, serviceVars, lsOp, lsFolder, clientVars, ancVars,
                 naiveVars, moreVars>>

\* the listing call returns to its caller
ListReturn ==
  /\ lsPc \in {"done", "failed"}
  /\ lsPc' = "idle" /\ lsOp' = "none" /\ lsFolder' = None
  /\ lsPageToken' = NoToken /\ lsFiles' = <<>> /\ lsDenied' = FALSE
  /\ UNCHANGED <<drive, serviceVars, clientVars, ancVars, naiveVars, moreVars>>

NextList ==
  \/ \E folderId \in drive.folders \cup {None}, ok \in BOOLEAN :
       GetFolderContents(folderId, ok)
  \/ \E ok \in BOOLEAN : GlobalDriveSearchList(ok)
  \/ \E folderId \in drive.folders, ok \in BOOLEAN :
       SearchInSingleFolderList(folderId, ok)
  \/ \E folderId \in drive.folders : FetchDirectChildren(folderId)
  \/ \E outcome \in {"ok", "401", "error"} : FetchDirectChildrenPage(outcome)
  \/ ListReturn

InitList == InitWith(ListDrives)

SpecList == InitList /\ [][NextList]_vars

\* every item the store holds for the query of the running listing call
FullListing ==
  CASE lsOp = "getFolderContents"    -> ChildrenOf(lsFolder)
    [] lsOp = "fetchDirectChildren"  -> ChildrenOf(lsFolder)
    [] lsOp = "searchInSingleFolder" -> MatchesIn(lsFolder)
    [] lsOp = "globalDriveSearch"    -> NameMatches
    [] OTHER                         -> <<>>

(***************************************************************************)
(* searchAllFiles(query) of the public dashboard: the level-by-level       *)
(* search of the folders below rootFolders, in batches of concurrent       *)
(* tasks.                                                                  *)
(***************************************************************************)
\* const BATCH_SIZE = 5
ClientBatchSize == Min(5, MaxBatch)
\* if (batchNumber > 20) break
ClientBatchLimit == 20

\* the component's rootFolders: the contents of the root folder
RootFolders == ChildrenOf(ThisFolderId)

\* fileItem.name.toLowerCase().includes(lowerQuery)
ItemMatches(n) == Contains(ToLowerCase(drive.name[n]), ToLowerCase(Query))

\* what the task of folder entry e computes from the contents it was given
TaskResult(e, driveFiles, processedFolders) ==
  LET hits == SelectSeq(driveFiles, ItemMatches)
      subs == SelectSeq(driveFiles,
                        LAMBDA n : IsFolder(n) /\ n \notin processedFolders)
  IN  [results    |-> [k \in DOMAIN hits |-> [id |-> hits[k], path |-> e.path]],
       subfolders |-> [k \in DOMAIN subs |->
                         [id   |-> subs[k],
                          path |-> Append(e.path, drive.name[subs[k]])]]]

EmptyTaskResult == [results |-> <<>>, subfolders |-> <<>>]

RECURSIVE FlattenResults(_, _)
FlattenResults(m, n) ==
  IF n = 0 THEN <<>> ELSE FlattenResults(m, n - 1) \o m[n].results

RECURSIVE FlattenSubfolders(_, _)
FlattenSubfolders(m, n) ==
  IF n = 0 THEN <<>> ELSE FlattenSubfolders(m, n - 1) \o m[n].subfolders

\* the code after await searchInFoldersBatch(batch): collect, then
\* currentBatch = nextBatch
ClientCollect(taskResults, n) ==
  /\ cAllResults' = cAllResults \o FlattenResults(taskResults, n)
  /\ cCurrentBatch' = FlattenSubfolders(taskResults, n)
  /\ cBatchNumber' = cBatchNumber + 1

\* searchAllFiles(query): the root level
SearchAllFiles ==
  /\ cPc = "idle" /\ opCount < MaxSearches
  /\ opCount' = opCount + 1
  /\ cPc' = "loop"
  /\ LET hits == SelectSeq(RootFolders, ItemMatches)
         dirs == SelectSeq(RootFolders, IsFolder)
     IN  /\ cAllResults' = [k \in DOMAIN hits |->
                              [id |-> hits[k], path |-> <<>>]]
         /\ cCurrentBatch' = [k \in DOMAIN dirs |->
                                [id |-> dirs[k],
                                 path |-> <<drive.name[dirs[k]]>>]]
  /\ cBatch' = <<>> /\ cPending' = {} /\ cBatchResults' = EmptyMap
  /\ cProcessed' = {} /\ cFolderCache' = EmptyMap /\ cBatchNumber' = 1
  /\ cFetchLog' = <<>> /\ cFailed' = FALSE
  /\ UNCHANGED <<drive, cacheVars, pc, op, root, maxDepth, globalVars,
                 buildVars, queryVars, results, histVars, listVars,
                 ancVars, naiveVars, moreVars>>

\* one loop iteration up to the await: splice, and the synchronous start of
\* every task of searchInFoldersBatch
ClientTakeBatch ==
  /\ cPc = "loop" /\ cPending = {}
  /\ IF cCurrentBatch = <<>> \/ cBatchNumber > ClientBatchLimit
       THEN /\ cPc' = "done"
            /\ UNCHANGED <<cCurrentBatch, cBatch, cPending, cBatchResults,
                           cProcessed, cAllResults, cBatchNumber, cFetchLog>>
       ELSE LET n     == Min(Len(cCurrentBatch), ClientBatchSize)
                batch == SubSeq(cCurrentBatch, 1, n)
                \* the tasks that pass processedFolders.has(id)
                fresh == {i \in 1..n :
                            /\ batch[i].id \notin cProcessed
                            /\ \A j \in 1..(i - 1) : batch[j].id # batch[i].id}
                asked == SelectSeq([i \in 1..n |->
                                      IF i \in fresh
                                         /\ batch[i].id \notin DOMAIN cFolderCache
                                        THEN batch[i].id ELSE None],
                                   LAMBDA x : x # None)
                skipped == [i \in (1..n) \ fresh |-> EmptyTaskResult]
            IN  /\ cBatch' = batch
                /\ cProcessed' = cProcessed \cup {batch[i].id : i \in 1..n}
                /\ cPending' = fresh
                /\ cBatchResults' = skipped
                /\ cFetchLog' = cFetchLog \o asked
                /\ IF fresh = {}
                     THEN ClientCollect(skipped, n)
                     ELSE UNCHANGED <<cCurrentBatch, cAllResults, cBatchNumber>>
                /\ UNCHANGED cPc
  /\ UNCHANGED <<drive, serviceVars, listVars, ancVars, naiveVars,
                 cFolderCache, cFailed, moreVars>>

\* getCachedFolderContents(id) of task i settles and the task finishes
ClientFetchDone(i, ok) ==
  /\ cPc = "loop" /\ i \in cPending
  /\ LET e      == cBatch[i]
         cached == e.id \in DOMAIN cFolderCache
         files  == IF cached THEN cFolderCache[e.id]
                   ELSE IF ok THEN ChildrenOf(e.id) ELSE <<>>
         done   == MapSet(cBatchResults, i, TaskResult(e, files, cProcessed))
     IN  /\ cached => ok
         /\ cFolderCache' = IF ok THEN MapSet(cFolderCache, e.id, files)
                                  ELSE cFolderCache
         /\ cBatchResults' = done
         /\ cPending' = cPending \ {i}
         /\ IF cPending' = {}
              THEN ClientCollect(done, Len(cBatch))
              ELSE UNCHANGED <<cCurrentBatch, cAllResults, cBatchNumber>>
  /\ cFailed' = (cFailed \/ ~ok)
  /\ UNCHANGED <<drive, serviceVars, listVars, ancVars, naiveVars, cPc,
                 cBatch, cProcessed, cFetchLog, moreVars>>

\* searchAllFiles returns allResults to handleSearch
ClientReturn ==
  /\ cPc = "done"
  /\ cPc' = "idle"
  /\ cCurrentBatch' = <<>> /\ cBatch' = <<>> /\ cPending' = {}
  /\ cBatchResults' = EmptyMap /\ cProcessed' = {} /\ cFolderCache' = EmptyMap
  /\ cAllResults' = <<>> /\ cBatchNumber' = 1 /\ cFetchLog' = <<>>
  /\ cFailed' = FALSE
  /\ UNCHANGED <<drive, serviceVars, listVars, ancVars, naiveVars, moreVars>>

NextClient ==
  \/ SearchAllFiles
  \/ ClientTakeBatch
  \/ \E i \in cPending, ok \in BOOLEAN : ClientFetchDone(i, ok)
  \/ ClientReturn

InitClient == InitWith(ClientDrives)

SpecClient == InitClient /\ [][NextClient]_vars

\* the folders reachable from the root folder through any parent
RECURSIVE ReachableFrom(_, _)
ReachableFrom(S, k) ==
  IF k = 0 THEN S
  ELSE ReachableFrom(S \cup {n \in drive.folders :
                                Range(drive.parents[n]) \cap S # {}}, k - 1)

ReachableFolders ==
  ReachableFrom({ThisFolderId}, Cardinality(drive.folders)) \ {ThisFolderId}

(***************************************************************************)
(* isDescendantOf(itemId, rootFolderId) step by step, for the requests     *)
(* the one service instance serves concurrently: every await of files.get *)
(* and of the recursive call is a point where the other request may run.   *)
(* Both requests read and write this.folderCache.                          *)
(***************************************************************************)
\* everything of the service but folderCache and opCount
walkIdle == <<pathCache, pc, op, root, maxDepth, globalVars, buildVars,
              queryVars, results, histVars>>

\* request p returns v from its innermost frame; stack holds the frames
\* still suspended
WalkResult(p, v, stack, remote) ==
  /\ wRes' = [wRes EXCEPT ![p] = v]
  /\ wStack' = [wStack EXCEPT ![p] = stack]
  /\ wPc' = [wPc EXCEPT ![p] = IF stack = <<>> THEN "done" ELSE "return"]
  /\ wRemote' = [wRemote EXCEPT ![p] = remote]

\* the synchronous start of isDescendantOf(item, r): the identity test, the
\* cache lookup, and the issue of files.get on a miss
WalkEnter(p, item, r, stack, remote) ==
  IF item = r
    THEN WalkResult(p, TRUE, stack, remote)
  ELSE IF <<item, r>> \in DOMAIN folderCache
    THEN WalkResult(p, folderCache[<<item, r>>], stack, remote)
  ELSE /\ wStack' = [wStack EXCEPT ![p] = Append(stack, item)]
       /\ wPc' = [wPc EXCEPT ![p] = "fetch"]
       /\ wRemote' = [wRemote EXCEPT ![p] = remote + 1]
       /\ UNCHANGED wRes

\* request p calls isDescendantOf(itemId, rootFolderId)
IsDescendantOfCall(p, itemId, rootFolderId) ==
  /\ wPc[p] = "idle" /\ opCount < MaxWalks
  /\ opCount' = opCount + 1
  /\ wRoot' = [wRoot EXCEPT ![p] = rootFolderId]
  /\ wLater' = [wLater EXCEPT ![p] = <<itemId, rootFolderId>> \in aNeg]
  /\ WalkEnter(p, itemId, rootFolderId, <<>>, 0)
  /\ UNCHANGED <<drive, folderCache, walkIdle, aNeg, listVars, clientVars,
                 naiveVars, moreVars>>

\* the files.get of the innermost frame of request p settles
WalkFetchDone(p, ok) ==
  /\ wPc[p] = "fetch"
  /\ LET stack    == wStack[p]
         itemId   == stack[Len(stack)]
         rest     == SubSeq(stack, 1, Len(stack) - 1)
         cacheKey == <<itemId, wRoot[p]>>
     IN  IF ~ok \/ drive.parents[itemId] = <<>>
           THEN /\ folderCache' = MapSet(folderCache, cacheKey, FALSE)
                /\ aNeg' = aNeg \cup {cacheKey}
                /\ WalkResult(p, FALSE, rest, wRemote[p])
         ELSE IF ParentIsRoot(itemId, wRoot[p])
           THEN /\ folderCache' = MapSet(folderCache, cacheKey, TRUE)
                /\ WalkResult(p, TRUE, rest, wRemote[p])
                /\ UNCHANGED aNeg
         ELSE /\ WalkEnter(p, PrimaryParent(itemId), wRoot[p], stack,
                           wRemote[p])
              /\ UNCHANGED <<folderCache, aNeg>>
  /\ UNCHANGED <<drive, opCount, walkIdle, wRoot, wLater, listVars,
                 clientVars, naiveVars, moreVars>>

\* the frame that awaited the recursive call resumes: memoize and return
WalkReturnStep(p) ==
  /\ wPc[p] = "return"
  /\ LET stack  == wStack[p]
         itemId == stack[Len(stack)]
     IN  /\ folderCache' = MapSet(folderCache, <<itemId, wRoot[p]>>,
                                  Memo(wRes[p]))
         /\ WalkResult(p, wRes[p], SubSeq(stack, 1, Len(stack) - 1),
                       wRemote[p])
  /\ UNCHANGED <<drive, opCount, walkIdle, wRoot, wLater, aNeg, listVars,
                 clientVars, naiveVars, moreVars>>

\* the caller of isDescendantOf has the answer
WalkDone(p) ==
  /\ wPc[p] = "done"
  /\ wPc' = [wPc EXCEPT ![p] = "idle"]
  /\ wRoot' = [wRoot EXCEPT ![p] = None]
  /\ wRes' = [wRes EXCEPT ![p] = FALSE]
  /\ wRemote' = [wRemote EXCEPT ![p] = 0]
  /\ wLater' = [wLater EXCEPT ![p] = FALSE]
  /\ UNCHANGED <<drive, folderCache, opCount, walkIdle, wStack, aNeg,
                 listVars, clientVars, naiveVars, moreVars>>

NextAncestry ==
  \/ \E p \in Requests, itemId \in Range(NameMatches),
        rootFolderId \in drive.roots :
       IsDescendantOfCall(p, itemId, rootFolderId)
  \/ \E p \in Requests, ok \in BOOLEAN : WalkFetchDone(p, ok)
  \/ \E p \in Requests : WalkReturnStep(p)
  \/ \E p \in Requests : WalkDone(p)

InitAncestry == InitWith(AncestryDrives)

SpecAncestry == InitAncestry /\ [][NextAncestry]_vars

(***************************************************************************)
(* searchFilesRecursive(query, folderId, depth): every invocation is       *)
(* identified by the path of folder ids that leads to it.  An invocation   *)
(* first awaits its three listings (and the path of its folder), then      *)
(* awaits its subfolders' invocations batch by batch.                      *)
(***************************************************************************)
\* const batchSize = 3
NaiveBatchSize == Min(3, MaxBatch)
\* const maxDepth = 8
NaiveMaxDepth == 8

\* the invocation for a subfolder at the given depth, up to its first await
NaiveFrame(depth) ==
  IF depth > NaiveMaxDepth
    THEN [pc |-> "done", depth |-> depth, pos |-> 0, res |-> <<>>]
    ELSE [pc |-> "list", depth |-> depth, pos |-> 0, res |-> <<>>]

\* allFolders.slice(i, i + batchSize) of the invocation with frame f
NaiveBatch(folderId, f) ==
  LET allFolders == ChildFolders(folderId)
  IN  SubSeq(allFolders, f.pos,
             Min(f.pos + NaiveBatchSize - 1, Len(allFolders)))

RECURSIVE FlattenFrames(_, _, _)
FlattenFrames(calls, paths, n) ==
  IF n = 0 THEN <<>>
  ELSE FlattenFrames(calls, paths, n - 1) \o calls[paths[n]].res

\* the frames of calls with the invocations of batch started below path
WithBatch(calls, path, batch, depth) ==
  [q \in DOMAIN calls \cup {Append(path, batch[k]) : k \in DOMAIN batch} |->
     IF q \in DOMAIN calls THEN calls[q] ELSE NaiveFrame(depth + 1)]

\* searchFilesRecursive(query, folderId) is called
SearchFilesRecursive(folderId) ==
  /\ nCalls = EmptyMap /\ opCount < MaxSearches
  /\ opCount' = opCount + 1
  /\ nCalls' = MapSet(EmptyMap, <<folderId>>, NaiveFrame(0))
  /\ UNCHANGED <<drive, cacheVars, pc, op, root, maxDepth, globalVars,
                 buildVars, queryVars, results, histVars, listVars,
                 clientVars, ancVars, moreVars>>

\* the three listings of the invocation at path settle (ok), one of them
\* throws (~ok); then the folder's path is built and the first batch of
\* subfolders is started
NaiveListDone(path, ok, failPath) ==
  /\ path \in DOMAIN nCalls /\ nCalls[path].pc = "list"
  /\ LET folderId   == path[Len(path)]
         f          == nCalls[path]
         hits       == MatchesIn(folderId)
         found      == SelectSeq(hits, LAMBDA n : ~IsFolder(n))
                         \o SelectSeq(hits, IsFolder)
         folderPath == IF folderId # ThisFolderId
                         THEN BuildFilePath(folderId, failPath).path
                         ELSE "/"
         res        == [k \in DOMAIN found |->
                          [id |-> found[k], path |-> folderPath]]
         first      == [f EXCEPT !.pc = "walk", !.pos = 1, !.res = res]
         batch      == NaiveBatch(folderId, first)
     IN  /\ failPath \in (IF ok /\ folderId # ThisFolderId
                            THEN PrimaryChain(folderId) \ {ThisFolderId}
                            ELSE {}) \cup {None}
         /\ nCalls' =
              IF ~ok
                THEN [nCalls EXCEPT ![path] = [f EXCEPT !.pc = "done"]]
              ELSE IF batch = <<>>
                THEN [nCalls EXCEPT ![path] =
                        [f EXCEPT !.pc = "done", !.res = res]]
              ELSE WithBatch([nCalls EXCEPT ![path] = first], path, batch,
                             f.depth)
  /\ UNCHANGED <<drive, serviceVars, listVars, clientVars, ancVars, moreVars>>

\* every invocation of the current batch below path has returned: collect,
\* then start the next batch or return
NaiveBatchDone(path) ==
  /\ path \in DOMAIN nCalls /\ nCalls[path].pc = "walk"
  /\ LET folderId == path[Len(path)]
         f        == nCalls[path]
         batch    == NaiveBatch(folderId, f)
         paths    == [k \in DOMAIN batch |-> Append(path, batch[k])]
         got      == [f EXCEPT !.res = f.res \o
                                 FlattenFrames(nCalls, paths, Len(paths)),
                               !.pos = f.pos + NaiveBatchSize]
         next     == NaiveBatch(folderId, got)
         kept     == [q \in DOMAIN nCalls \ Range(paths) |->
                        IF q = path
                          THEN IF next = <<>> THEN [got EXCEPT !.pc = "done"]
                                              ELSE got
                          ELSE nCalls[q]]
     IN  /\ \A k \in DOMAIN paths : nCalls[paths[k]].pc = "done"
         /\ nCalls' = IF next = <<>> THEN kept
                      ELSE WithBatch(kept, path, next, f.depth)
  /\ UNCHANGED <<drive, serviceVars, listVars, clientVars, ancVars, moreVars>>

\* the outermost invocation returns allResults to its caller
NaiveReturn ==
  /\ \E path \in DOMAIN nCalls : Len(path) = 1 /\ nCalls[path].pc = "done"
  /\ nCalls' = EmptyMap
  /\ UNCHANGED <<drive, serviceVars, listVars, clientVars, ancVars, moreVars>>

NextNaive ==
  \/ \E folderId \in drive.roots : SearchFilesRecursive(folderId)
  \/ \E path \in DOMAIN nCalls, ok \in BOOLEAN,
        failPath \in NodeSet \cup {None} : NaiveListDone(path, ok, failPath)
  \/ \E path \in DOMAIN nCalls : NaiveBatchDone(path)
  \/ NaiveReturn

InitNaive == InitWith(NaiveDrives)

SpecNaive == InitNaive /\ [][NextNaive]_vars

\* the invocations whose listings are outstanding
NaiveOutstanding == {path \in DOMAIN nCalls : nCalls[path].pc = "list"}

(***************************************************************************)
(* searchAllFolders(folderId, query, visited) of the file browser          *)
(* component: the matches of a folder page by page, then the search of     *)
(* its subfolders, all started at once (Promise.all) and sharing visited.  *)
(***************************************************************************)
\* the stores searched from the file browser
FolderDrives == {DriveWide, DriveShared}

\* the invocation for folderId as it stands at its first await, or returned
\* at once when the folder was visited before
FolderFrame(folderId, seen) ==
  IF folderId \in seen
    THEN [pc |-> "done", pageToken |-> NoToken, allResults |-> <<>>,
          kids |-> <<>>]
    ELSE [pc |-> "page", pageToken |-> NoToken, allResults |-> <<>>,
          kids |-> <<>>]

\* return [] of the invocation with frame f
ReturnEmpty(f) == [f EXCEPT !.pc = "done", !.allResults = <<>>]

\* return allResults of the invocation with frame f
ReturnAllResults(f) == [f EXCEPT !.pc = "done"]

\* if (response.status === 401 && onInsufficientScopeError) { ...; return [] }
OnUnauthorized(f) == ReturnEmpty(f)

\* getFolderPath(item.parents): the name of parents[0], "" when the fetch
\* is not answered ok
GetFolderPath(item, ok) ==
  IF PrimaryParent(item) = None \/ ~ok THEN ""
  ELSE drive.name[PrimaryParent(item)]

\* searchAllFolders(searchFromId, searchQuery) is called by performSearch
SearchAllFolders(folderId) ==
  /\ saCalls = EmptyMap /\ opCount < MaxSearches
  /\ opCount' = opCount + 1
  /\ saCalls' = MapSet(EmptyMap, <<folderId>>, FolderFrame(folderId, {}))
  /\ visited' = {folderId}
  /\ saCollected' = {} /\ saDenied' = FALSE /\ saOther' = FALSE
  /\ UNCHANGED <<drive, cacheVars, pc, op, root, maxDepth, globalVars,
                 buildVars, queryVars, results, histVars, listVars,
                 clientVars, ancVars, naiveVars,
                 uiVars, storageVars, authVars>>

\* one response of the do/while loop over the pages of matches: a page
\* ("ok"), a 401, another status ("error", break) or a rejected fetch
\* ("throw", caught at the end of the function); noPath are the items of
\* the page whose getFolderPath fetch fails
FolderPageDone(path, outcome, noPath) ==
  /\ path \in DOMAIN saCalls /\ saCalls[path].pc = "page"
  /\ LET folderId == path[Len(path)]
         f        == saCalls[path]
         data     == StorePage(MatchesIn(folderId), PageSize(ClientPageSize),
                               f.pageToken)
         items    == [k \in DOMAIN data.files |->
                        [id         |-> data.files[k],
                         folderPath |-> GetFolderPath(data.files[k],
                                           data.files[k] \notin noPath)]]
     IN  /\ noPath \subseteq (IF outcome = "ok" THEN Range(data.files) ELSE {})
         /\ saCalls' = [saCalls EXCEPT ![path] =
              CASE outcome = "ok" ->
                     [f EXCEPT !.allResults = f.allResults \o items,
                               !.pageToken  = data.nextPageToken,
                               !.pc = IF data.nextPageToken = NoToken
                                        THEN "folders" ELSE "page"]
                [] outcome = "401"   -> OnUnauthorized(f)
                [] outcome = "error" -> [f EXCEPT !.pc = "folders"]
                [] OTHER             -> ReturnEmpty(f)]
         /\ saCollected' = IF outcome = "ok"
                             THEN saCollected \cup Range(data.files)
                             ELSE saCollected
  /\ saDenied' = (saDenied \/ outcome = "401")
  /\ saOther'  = (saOther \/ outcome \in {"error", "throw"})
  /\ UNCHANGED <<drive, serviceVars, visited, listVars, clientVars, ancVars,
                 naiveVars,
                 uiVars, storageVars, authVars>>

\* the frames of calls with the invocations for folders started below path
WithSubfolders(calls, path, folders, seen) ==
  [q \in DOMAIN calls \cup {Append(path, folders[k]) : k \in DOMAIN folders}
     |-> IF q \in DOMAIN calls THEN calls[q]
         ELSE LET k == CHOOSE i \in DOMAIN folders : q = Append(path, folders[i])
              IN  FolderFrame(folders[k],
                              seen \cup {folders[j] : j \in 1..(k - 1)})]

\* the response to the listing of the subfolders (one page): ok starts the
\* search of every subfolder, another status returns allResults, a
\* rejected fetch returns []
FolderListDone(path, outcome) ==
  /\ path \in DOMAIN saCalls /\ saCalls[path].pc = "folders"
  /\ LET folderId == path[Len(path)]
         f        == saCalls[path]
         folders  == StorePage(ChildFolders(folderId),
                               PageSize(ClientPageSize), NoToken).files
         kids     == [k \in DOMAIN folders |-> Append(path, folders[k])]
     IN  CASE outcome = "ok" ->
                /\ saCalls' =
                     WithSubfolders([saCalls EXCEPT ![path] =
                                       [f EXCEPT !.pc = "join", !.kids = kids]],
                                    path, folders, visited)
                /\ visited' = visited \cup Range(folders)
           [] outcome = "error" ->
                /\ saCalls' = [saCalls EXCEPT ![path] = ReturnAllResults(f)]
                /\ UNCHANGED visited
           [] OTHER ->
                /\ saCalls' = [saCalls EXCEPT ![path] = ReturnEmpty(f)]
                /\ UNCHANGED visited
  /\ saOther' = (saOther \/ outcome \in {"error", "throw"})
  /\ UNCHANGED <<drive, serviceVars, saCollected, saDenied, listVars,
                 clientVars, ancVars, naiveVars,
                 uiVars, storageVars, authVars>>

RECURSIVE FlattenAllResults(_, _, _)
FlattenAllResults(calls, paths, n) ==
  IF n = 0 THEN <<>>
  ELSE FlattenAllResults(calls, paths, n - 1) \o calls[paths[n]].allResults

\* await Promise.all(subfolderPromises) resumes: every subfolder's search
\* has returned; allResults takes their results and is returned
FolderJoin(path) ==
  /\ path \in DOMAIN saCalls /\ saCalls[path].pc = "join"
  /\ LET f == saCalls[path]
     IN  /\ \A k \in DOMAIN f.kids : saCalls[f.kids[k]].pc = "done"
         /\ saCalls' =
              [q \in DOMAIN saCalls \ Range(f.kids) |->
                 IF q = path
                   THEN [f EXCEPT !.pc = "done", !.kids = <<>>,
                           !.allResults = f.allResults \o
                             FlattenAllResults(saCalls, f.kids, Len(f.kids))]
                   ELSE saCalls[q]]
  /\ UNCHANGED <<drive, serviceVars, visited, saCollected, saDenied, saOther,
                 listVars, clientVars, ancVars, naiveVars,
                 uiVars, storageVars, authVars>>

\* the outermost invocation has returned: setSearchResults(searchResults)
FolderSearchReturn ==
  /\ \E path \in DOMAIN saCalls : Len(path) = 1 /\ saCalls[path].pc = "done"
  /\ saCalls' = EmptyMap /\ visited' = {}
  /\ saCollected' = {} /\ saDenied' = FALSE /\ saOther' = FALSE
  /\ UNCHANGED <<drive, serviceVars, listVars, clientVars, ancVars, naiveVars,
                 uiVars, storageVars, authVars>>

NextFolders ==
  \/ \E folderId \in drive.roots : SearchAllFolders(folderId)
  \/ \E path \in DOMAIN saCalls, outcome \in {"ok", "401", "error", "throw"},
        noPath \in SUBSET NodeSet : FolderPageDone(path, outcome, noPath)
  \/ \E path \in DOMAIN saCalls, outcome \in {"ok", "error", "throw"} :
       FolderListDone(path, outcome)
  \/ \E path \in DOMAIN saCalls : FolderJoin(path)
  \/ FolderSearchReturn

InitFolders == InitWith(FolderDrives)

SpecFolders == InitFolders /\ [][NextFolders]_vars

\* the value the outermost invocation of searchAllFolders returns
FolderSearchResult ==
  IF \E path \in DOMAIN saCalls : Len(path) = 1 /\ saCalls[path].pc = "done"
    THEN LET path == CHOOSE q \in DOMAIN saCalls :
                       Len(q) = 1 /\ saCalls[q].pc = "done"
         IN  saCalls[path].allResults
    ELSE <<>>

FolderSearchDone ==
  \E path \in DOMAIN saCalls : Len(path) = 1 /\ saCalls[path].pc = "done"

(***************************************************************************)
(* The search boxes: the input of the public dashboard with its debounce   *)
(* timer and handleSearch, and the performSearch effect of the file        *)
(* browser.  A search that has started is never cancelled; each awaits     *)
(* its remote calls and then calls setSearchResults.                       *)
(***************************************************************************)
\* the components that own a search box
Components == {"dashboard", "browser"}

\* the values typed into the search box
TypedQueries == {"", "x", "px", "pdf"}

\* if (searchQuery.length < 2) of performSearch
MinQueryLength == 2

UiDrives == {DriveLevel}

\* name.toLowerCase().includes(query.toLowerCase())
MatchesQuery(n, q) == Contains(ToLowerCase(drive.name[n]), ToLowerCase(q))

\* the items below the root folder, in listing order
ItemsBelowRoot ==
  SelectSeq(drive.nodes,
            LAMBDA n : n # ThisFolderId /\ ThisFolderId \in PrimaryChain(n))

\* what a search for q delivers: the backend's answer, the recursive search
\* of the dashboard or of the file browser, the filter of rootFolders in
\* the catch branch of handleSearch, or [] after a failure
SearchOutcome(kind, q) ==
  CASE kind = "backend" ->
         SelectSeq(ItemsBelowRoot, LAMBDA n : Contains(drive.name[n], q))
    [] kind = "recursive" ->
         SelectSeq(ItemsBelowRoot, LAMBDA n : MatchesQuery(n, q))
    [] kind = "local" ->
         SelectSeq(RootFolders, LAMBDA n : MatchesQuery(n, q))
    [] OTHER -> <<>>

\* the component is mounted
MountComponent(c) ==
  /\ uiComp = None
  /\ uiComp' = c
  /\ UNCHANGED <<uiQuery, uiTimer, uiRuns, uiIssued, uiTyped, uiResults,
                 uiShown, uiLatestDone, uiCache>>

\* the invocation numbered n of the search function starts for query q:
\* handleSearch(q) of the dashboard up to its first await (an empty query
\* and a sessionStorage hit end it at once), performSearch of the file
\* browser up to its first await (a query shorter than two characters
\* ends it at once)
StartSearch(q) ==
  LET n == uiIssued + 1 IN
  /\ uiIssued' = n
  /\ IF uiComp = "dashboard"
       THEN IF q = ""
              THEN /\ uiResults' = <<>>
                   /\ uiShown' = [n |-> n, query |-> q]
                   /\ uiLatestDone' = n
                   /\ UNCHANGED uiRuns
            ELSE IF ToLowerCase(q) \in DOMAIN uiCache
              THEN /\ uiResults' = uiCache[ToLowerCase(q)]
                   /\ uiShown' = [n |-> n, query |-> q]
                   /\ uiLatestDone' = n
                   /\ UNCHANGED uiRuns
            ELSE /\ uiRuns' = MapSet(uiRuns, n, q)
                 /\ UNCHANGED <<uiResults, uiShown, uiLatestDone>>
       ELSE IF Len(q) < MinQueryLength
              THEN /\ uiResults' = <<>>
                   /\ uiShown' = [n |-> n, query |-> q]
                   /\ uiLatestDone' = n
                   /\ UNCHANGED uiRuns
            ELSE /\ uiRuns' = MapSet(uiRuns, n, q)
                 /\ UNCHANGED <<uiResults, uiShown, uiLatestDone>>

\* onChange of the dashboard's input / a new searchQuery prop of the file
\* browser: the pending timer is cleared and a new one is set; the
\* dashboard clears the results at once when the box is emptied
TypeQuery(newQuery) ==
  /\ uiComp # None /\ uiTyped < MaxTyped
  /\ newQuery # uiQuery
  /\ uiTyped' = uiTyped + 1
  /\ uiQuery' = newQuery
  /\ IF uiComp = "dashboard" /\ newQuery = ""
       THEN /\ uiTimer' = None
            /\ uiResults' = <<>>
       ELSE /\ uiTimer' = newQuery
            /\ UNCHANGED uiResults
  /\ UNCHANGED <<uiComp, uiRuns, uiIssued, uiShown, uiLatestDone, uiCache>>

\* the debounce timer fires: handleSearch(newQuery) / performSearch()
TimerFires ==
  /\ uiTimer # None
  /\ uiTimer' = None
  /\ StartSearch(uiTimer)
  /\ UNCHANGED <<uiComp, uiQuery, uiTyped, uiCache>>

\* onKeyPress Enter of the dashboard's input: handleSearch(searchQuery)
PressEnter ==
  /\ uiComp = "dashboard" /\ uiTyped < MaxTyped
  /\ uiTyped' = uiTyped + 1
  /\ uiTimer' = None
  /\ StartSearch(uiQuery)
  /\ UNCHANGED <<uiComp, uiQuery, uiCache>>

\* the invocation numbered n resumes after its last await and calls
\* setSearchResults; kind tells which branch delivered
SearchCompletes(n, kind) ==
  /\ n \in DOMAIN uiRuns
  /\ kind \in (IF uiComp = "dashboard"
                 THEN {"backend", "recursive", "local"}
                 ELSE {"recursive", "failed"})
  /\ LET q     == uiRuns[n]
         items == SearchOutcome(kind, q)
     IN  /\ kind = "backend" => items # <<>>
         /\ uiResults' = items
         /\ uiShown' = [n |-> n, query |-> q]
         /\ uiLatestDone' = IF n > uiLatestDone THEN n ELSE uiLatestDone
         /\ uiCache' = IF uiComp = "dashboard" /\ kind # "local"
                          /\ items # <<>>
                         THEN MapSet(uiCache, ToLowerCase(q), items)
                         ELSE uiCache
  /\ uiRuns' = [k \in DOMAIN uiRuns \ {n} |-> uiRuns[k]]
  /\ UNCHANGED <<uiComp, uiQuery, uiTimer, uiIssued, uiTyped>>

UiStep(A) ==
  /\ A
  /\ UNCHANGED <<drive, serviceVars, listVars, clientVars, ancVars, naiveVars,
                 folderSearchVars, storageVars, authVars>>

NextUi ==
  \/ \E c \in Components : UiStep(MountComponent(c))
  \/ \E newQuery \in TypedQueries : UiStep(TypeQuery(newQuery))
  \/ UiStep(TimerFires)
  \/ UiStep(PressEnter)
  \/ \E n \in DOMAIN uiRuns,
        kind \in {"backend", "recursive", "local", "failed"} :
       UiStep(SearchCompletes(n, kind))

InitUi == InitWith(UiDrives)

SpecUi == InitUi /\ [][NextUi]_vars

(***************************************************************************)
(* services/encryptedStorage.ts: EncryptedStorage over localStorage.       *)
(* CryptoJS.AES.encrypt(text, passphrase) draws a random salt and yields   *)
(* the OpenSSL form "U2FsdGVkX1" + salt + cipher text, never the empty     *)
(* string; the cipher is modelled by a rotation of the characters.         *)
(***************************************************************************)
\* the keys written in a run of the storage
StorageKeys == {"accessToken", "userPicture"}

\* the values written in a run of the storage
StorageValues == {"", "a", "ya29"}

\* the salts CryptoJS draws
Salts == {"s1", "s2"}

\* Base64 of "Salted__", the head of every cipher text
SaltedHead == "U2FsdGVkX1"

SaltLen == 2

CipherChars == "abcdefghijklmnopqrstuvwxyz0123456789"

\* the character k places after c in CipherChars (cyclic); other characters
\* are kept
Rotate(c, k) ==
  LET i == IndexIn(c, CipherChars)
      j == ((i - 1 + k) % Len(CipherChars)) + 1
  IN  IF i = 0 THEN c ELSE SubSeq(CipherChars, j, j)

RECURSIVE RotateAll(_, _)
RotateAll(s, k) ==
  IF s = "" THEN ""
  ELSE Rotate(SubSeq(s, 1, 1), k) \o RotateAll(SubSeq(s, 2, Len(s)), k)

\* EncryptedStorage.encrypt(text) with the salt drawn for this call
Encrypt(text, salt) == SaltedHead \o salt \o RotateAll(text, 1)

\* EncryptedStorage.decrypt(encryptedText): the plain text, '' when the
\* text is no cipher text (the bytes are no UTF-8, or toString throws)
Decrypt(encryptedText) ==
  LET h == Len(SaltedHead) + SaltLen IN
  IF Len(encryptedText) >= h
     /\ SubSeq(encryptedText, 1, Len(SaltedHead)) = SaltedHead
    THEN RotateAll(SubSeq(encryptedText, h + 1, Len(encryptedText)),
                   Len(CipherChars) - 1)
    ELSE ""

\* EncryptedStorage.getItem(key) on the localStorage contents store:
\* null (None), or decryptedValue || encryptedValue
GetItemIn(store, key) ==
  IF key \notin DOMAIN store \/ store[key] = "" THEN None
  ELSE LET decryptedValue == Decrypt(store[key])
       IN  IF decryptedValue # "" THEN decryptedValue ELSE store[key]

\* localStorage after EncryptedStorage.setItem(key, value)
SetItemIn(store, key, value, salt) == MapSet(store, key, Encrypt(value, salt))

\* localStorage after removeItem for every key of keys
RemoveItemsIn(store, keys) == [k \in DOMAIN store \ keys |-> store[k]]

\* EncryptedStorage.setItem(key, value)
SetItem(key, value, salt) ==
  /\ stOps < MaxStorageOps
  /\ stOps' = stOps + 1
  /\ localStorage' = SetItemIn(localStorage, key, value, salt)
  /\ stLastSet' = [key |-> key, value |-> value]
  /\ stGot' = [key |-> None, value |-> None, afterSet |-> FALSE]

\* EncryptedStorage.getItem(key)
GetItem(key) ==
  /\ stOps < MaxStorageOps
  /\ stOps' = stOps + 1
  /\ stGot' = [key |-> key, value |-> GetItemIn(localStorage, key),
               afterSet |-> (stLastSet.key = key)]
  /\ UNCHANGED <<localStorage, stLastSet>>

\* EncryptedStorage.removeItem(key)
RemoveItem(key) ==
  /\ stOps < MaxStorageOps
  /\ stOps' = stOps + 1
  /\ localStorage' = RemoveItemsIn(localStorage, {key})
  /\ stLastSet' = [key |-> None, value |-> None]
  /\ stGot' = [key |-> None, value |-> None, afterSet |-> FALSE]

StorageStep(A) ==
  /\ A
  /\ UNCHANGED <<drive, serviceVars, listVars, clientVars, ancVars, naiveVars,
                 folderSearchVars, uiVars, authVars>>

NextStorage ==
  \/ \E key \in StorageKeys, value \in StorageValues, salt \in Salts :
       StorageStep(SetItem(key, value, salt))
  \/ \E key \in StorageKeys : StorageStep(GetItem(key))
  \/ \E key \in StorageKeys : StorageStep(RemoveItem(key))

InitStorage == InitWith({DriveScenario})

SpecStorage == InitStorage /\ [][NextStorage]_vars

(***************************************************************************)
(* Sign-in state of the browser application: AppContent (part_004), the    *)
(* dashboard (part_008) and the Header's logout.  Both components keep     *)
(* their own isRefreshingRef and intervalRef and share localStorage.       *)
(* A promise's continuation runs in the microtask that settles it, so a    *)
(* response and what its caller does with it are one step.                 *)
(***************************************************************************)
\* JavaScript truthiness of a string or null
Truthy(x) == x # None /\ x # ""

\* the salt of the cipher texts written by the components; no component
\* compares cipher texts
StoreSalt == "s1"

SENSITIVE_KEYS ==
  {"accessToken", "refreshToken", "userEmail", "userName", "userPicture",
   "userRole", "currentUser", "clientId", "clientSecret", "driveUrl"}

\* VITE_GOOGLE_CLIENT_ID, _SECRET and _DRIVE_URL of a deployment users can
\* sign in to
DEFAULT_GOOGLE_OAUTH_SETTINGS ==
  [clientId |-> "cid", clientSecret |-> "sec", driveUrl |-> "url"]

\* the settings an admin saves in the settings dialog
SavedSettings == [clientId |-> "cid2", clientSecret |-> "sec2",
                  driveUrl |-> "url2"]

\* the e-mail of the public user
PublicEmail == "public@curriculum.local"

\* the Google account that signs in
AdminEmail == "anirach"

\* the refresh token Google gave at consent
RefreshTokenValue == "rt"

Digits == "0123456789"

\* the n-th access token Google issues
AccessToken(n) == "at" \o SubSeq(Digits, (n % 10) + 1, (n % 10) + 1)

StoreItem(store, key, value) == SetItemIn(store, key, value, StoreSalt)

\* encryptedStorage.setTokens(accessToken, refreshToken)
SetTokens(store, accessToken, refreshToken) ==
  LET s == StoreItem(store, "accessToken", accessToken)
  IN  IF Truthy(refreshToken) THEN StoreItem(s, "refreshToken", refreshToken)
      ELSE s

\* encryptedStorage.getTokens()
GetTokens(store) ==
  [accessToken |-> GetItemIn(store, "accessToken"),
   refreshToken |-> GetItemIn(store, "refreshToken")]

\* encryptedStorage.setUserData(email, name, picture, role); the name and
\* the picture are stored like the e-mail and read by no branch
SetUserData(store, email, role) ==
  StoreItem(StoreItem(store, "userEmail", email), "userRole", role)

\* encryptedStorage.getUserData(): always an object
GetUserData(store) ==
  [set |-> TRUE, email |-> GetItemIn(store, "userEmail"),
   role |-> GetItemIn(store, "userRole")]

\* encryptedStorage.setOAuthSettings(clientId, clientSecret, driveUrl)
SetOAuthSettings(store, s) ==
  StoreItem(StoreItem(StoreItem(store, "clientId", s.clientId),
                      "clientSecret", s.clientSecret),
            "driveUrl", s.driveUrl)

\* encryptedStorage.getOAuthSettings()
GetOAuthSettings(store) ==
  [clientId |-> GetItemIn(store, "clientId"),
   clientSecret |-> GetItemIn(store, "clientSecret"),
   driveUrl |-> GetItemIn(store, "driveUrl")]

\* encryptedStorage.clearUserData()
ClearUserData(store) == RemoveItemsIn(store, SENSITIVE_KEYS)

\* userService.getGoogleDriveSettings(): stored value || default
GetGoogleDriveSettings(store) ==
  LET s == GetOAuthSettings(store)
      d == DEFAULT_GOOGLE_OAUTH_SETTINGS
  IN  [clientId |-> IF Truthy(s.clientId) THEN s.clientId ELSE d.clientId,
       clientSecret |-> IF Truthy(s.clientSecret) THEN s.clientSecret
                        ELSE d.clientSecret,
       driveUrl |-> IF Truthy(s.driveUrl) THEN s.driveUrl ELSE d.driveUrl]

\* the user Google's userinfo endpoint describes
UserInfo == [set |-> TRUE, email |-> AdminEmail, role |-> "Admin"]

\* the calls of refreshAccessToken of component c that have not ended
InFlight(c) == {k \in RefreshCallers : rf[<<c, k>>].pc \in {"settings", "token"}}

\* refreshAccessToken's first test: a refresh is already in progress
NeverRefreshing(c) == FALSE

AlreadyRefreshing(c) == isRefreshing[c]

\* refreshAccessToken(token) up to its first await, given the flag: the
\* call is skipped, or it takes the flag and waits for the settings
RefreshCall(c, token, stage, flag) ==
  IF flag THEN [started |-> FALSE, frame |-> NoFrame]
  ELSE [started |-> TRUE,
        frame |-> [pc |-> "settings", arg |-> token, stage |-> stage]]

\* a page load: every component is mounted anew, requests in flight are
\* abandoned
PageLoaded(withCode) ==
  /\ user' = NoUser /\ isAuthenticated' = FALSE
  /\ isRefreshing' = [c \in AuthComponents |-> FALSE]
  /\ rf' = [ck \in AuthComponents \X RefreshCallers |-> NoFrame]
  /\ hasInterval' = [c \in AuthComponents |-> FALSE]
  /\ aPc' = "boot" /\ aCode' = withCode /\ aTokens' = NoTokens

\* initializeApp found no usable token: setUser(null),
\* setIsAuthenticated(false), clearTokenRefreshInterval()
AppSignedOut ==
  /\ user' = NoUser /\ isAuthenticated' = FALSE
  /\ hasInterval' = [hasInterval EXCEPT !["app"] = FALSE]
  /\ aPc' = "ready"

\* the user effect after setUser(u) with u an object: setIsAuthenticated(true)
\* and setupTokenRefreshInterval() when no timer is set
AppSignedIn(u) ==
  /\ user' = u /\ isAuthenticated' = TRUE
  /\ hasInterval' = [hasInterval EXCEPT !["app"] = TRUE]

\* validateAndRefreshToken calls refreshAccessToken(token); a skipped call
\* returns null, which ends initializeApp signed out.  When the call
\* starts, the caller says what becomes of user.
AppCallsRefresh(token, stage) ==
  LET call == RefreshCall("app", token, stage, AlreadyRefreshing("app"))
  IN  IF call.started
        THEN /\ isRefreshing' = [isRefreshing EXCEPT !["app"] = TRUE]
             /\ rf' = [rf EXCEPT ![<<"app", "api">>] = call.frame]
             /\ aPc' = "refresh"
             /\ UNCHANGED rSkipped
        ELSE /\ rSkipped' = [rSkipped EXCEPT !["app"] = TRUE]
             /\ UNCHANGED <<isRefreshing, rf>>
             /\ AppSignedOut

\* initializeApp up to its first await, and to its end when nothing is
\* awaited
AppBoot ==
  /\ aPc = "boot"
  /\ LET t == GetTokens(localStorage)
         shown == GetUserData(localStorage)
     IN
     /\ aTokens' = t
     /\ IF aCode
          THEN /\ aPc' = "exchange"
               /\ IF Truthy(t.refreshToken)
                    THEN AppSignedIn(shown)
                    ELSE UNCHANGED <<user, isAuthenticated, hasInterval>>
               /\ UNCHANGED <<isRefreshing, rf, rSkipped>>
        ELSE IF ~Truthy(t.refreshToken)
          THEN AppSignedOut /\ UNCHANGED <<isRefreshing, rf, rSkipped>>
        ELSE IF ~Truthy(t.accessToken)
          THEN /\ AppCallsRefresh(t.refreshToken, "last")
               /\ IF AlreadyRefreshing("app") THEN TRUE
                  ELSE AppSignedIn(shown)
        ELSE /\ AppSignedIn(shown)
             /\ aPc' = "validate"
             /\ UNCHANGED <<isRefreshing, rf, rSkipped>>
  /\ UNCHANGED <<localStorage, srvValid, srvIssued, aCode, authOps,
                 loggedOut, autoFail>>

\* initializeApp, OAuth callback flow: the code is exchanged for tokens and
\* the user info is fetched; navigate() then changes the location and the
\* effect runs initializeApp again, without a code
ExchangeDone(ok) ==
  /\ aPc = "exchange"
  /\ aPc' = "boot" /\ aCode' = FALSE
  /\ IF ok /\ srvIssued < MaxTokens
       THEN LET t == AccessToken(srvIssued + 1) IN
            /\ srvIssued' = srvIssued + 1
            /\ srvValid' = srvValid \cup {t}
            /\ localStorage' =
                 SetUserData(SetTokens(localStorage, t, RefreshTokenValue),
                             UserInfo.email, UserInfo.role)
            /\ AppSignedIn(UserInfo)
            /\ loggedOut' = FALSE
       ELSE UNCHANGED <<srvIssued, srvValid, localStorage, user,
                        isAuthenticated, hasInterval, loggedOut>>
  /\ UNCHANGED <<isRefreshing, rf, aTokens, authOps, autoFail, rSkipped>>

\* validateAndRefreshToken: the userinfo request made with the stored
\* access token is answered, or fails
ValidateDone(answered) ==
  /\ aPc = "validate"
  /\ IF answered /\ aTokens.accessToken \in srvValid
       THEN /\ aPc' = "userinfo"
            /\ UNCHANGED <<isRefreshing, rf, rSkipped, user, isAuthenticated,
                           hasInterval>>
       ELSE /\ AppCallsRefresh(aTokens.refreshToken,
                               IF answered THEN "first" ELSE "last")
            /\ IF AlreadyRefreshing("app") THEN TRUE
               ELSE UNCHANGED <<user, isAuthenticated, hasInterval>>
  /\ UNCHANGED <<localStorage, srvValid, srvIssued, aCode, aTokens, authOps,
                 loggedOut, autoFail>>

\* checkAndSetUserFromToken: the userinfo request made with validToken is
\* answered, or fails
UserInfoDone(answered) ==
  /\ aPc = "userinfo"
  /\ IF answered /\ aTokens.accessToken \in srvValid
       THEN /\ AppSignedIn(UserInfo)
            /\ aPc' = "ready"
            /\ localStorage' =
                 SetUserData(MapSet(localStorage, "currentUser",
                                    UserInfo.email),
                             UserInfo.email, UserInfo.role)
       ELSE AppSignedOut /\ UNCHANGED localStorage
  /\ UNCHANGED <<isRefreshing, rf, srvValid, srvIssued, aCode, aTokens,
                 authOps, loggedOut, autoFail, rSkipped>>

\* AppContent.refreshAccessToken fails: the catch clears the user data and
\* rethrows, finally resets the flag.  Then the caller goes on: the timer
\* callback only logs, validateAndRefreshToken tries once more after a
\* first failure and gives up after the last.
AppRefreshFails(k) ==
  LET f == rf[<<"app", k>>]
      retry == RefreshCall("app", f.arg, "last", FALSE)
  IN
  /\ localStorage' = ClearUserData(localStorage)
  /\ UNCHANGED <<srvIssued, srvValid, aTokens>>
  /\ IF k = "interval"
       THEN /\ UNCHANGED <<user, isAuthenticated, hasInterval, aPc>>
            /\ autoFail' = [seen |-> TRUE, before |-> localStorage,
                            after |-> localStorage', user |-> user']
            /\ isRefreshing' = [isRefreshing EXCEPT !["app"] = FALSE]
            /\ rf' = [rf EXCEPT ![<<"app", k>>] = NoFrame]
     ELSE IF f.stage = "first"
       THEN /\ rf' = [rf EXCEPT ![<<"app", k>>] = retry.frame]
            /\ UNCHANGED <<isRefreshing, user, isAuthenticated, hasInterval,
                           aPc, autoFail>>
     ELSE /\ isRefreshing' = [isRefreshing EXCEPT !["app"] = FALSE]
          /\ rf' = [rf EXCEPT ![<<"app", k>>] = NoFrame]
          /\ AppSignedOut
          /\ UNCHANGED autoFail

\* AppContent.refreshAccessToken: getGoogleDriveSettings() has resolved;
\* the token request is sent unless the settings are missing
AppSettingsDone(k) ==
  /\ rf[<<"app", k>>].pc = "settings"
  /\ LET s == GetGoogleDriveSettings(localStorage) IN
     IF Truthy(s.clientId) /\ Truthy(s.clientSecret)
       THEN /\ rf' = [rf EXCEPT ![<<"app", k>>].pc = "token"]
            /\ UNCHANGED <<localStorage, isRefreshing, hasInterval, srvValid,
                           srvIssued, user, isAuthenticated, aPc, aTokens,
                           autoFail>>
       ELSE AppRefreshFails(k)
  /\ UNCHANGED <<aCode, authOps, loggedOut, rSkipped>>

\* AppContent.refreshAccessToken: the token request is answered.  On
\* success the tokens are stored, finally resets the flag and the caller
\* goes on with the new access token.
AppRefreshDone(k, ok) ==
  LET f == rf[<<"app", k>>]
      t == AccessToken(srvIssued + 1)
  IN
  /\ f.pc = "token"
  /\ IF ok
       THEN /\ srvIssued < MaxTokens
            /\ srvIssued' = srvIssued + 1
            /\ srvValid' = srvValid \cup {t}
            /\ localStorage' = SetTokens(localStorage, t, f.arg)
            /\ isRefreshing' = [isRefreshing EXCEPT !["app"] = FALSE]
            /\ rf' = [rf EXCEPT ![<<"app", k>>] = NoFrame]
            /\ IF k = "api"
                 THEN /\ aPc' = "userinfo"
                      /\ aTokens' = [aTokens EXCEPT !.accessToken = t]
                 ELSE UNCHANGED <<aPc, aTokens>>
            /\ UNCHANGED <<user, isAuthenticated, hasInterval, autoFail>>
       ELSE AppRefreshFails(k)
  /\ UNCHANGED <<aCode, authOps, loggedOut, rSkipped>>

\* the callback of AppContent's 50-minute timer.  A request is abandoned
\* long before the timer fires again.
AppIntervalTick ==
  /\ hasInterval["app"] /\ rf[<<"app", "interval">>].pc = "none"
  /\ aPc # "boot"
  /\ authOps < MaxAuthOps
  /\ authOps' = authOps + 1
  /\ LET t == GetTokens(localStorage)
         call == RefreshCall("app", t.refreshToken, "timer",
                             AlreadyRefreshing("app"))
     IN  IF Truthy(t.refreshToken) /\ ~isRefreshing["app"] /\ call.started
           THEN /\ isRefreshing' = [isRefreshing EXCEPT !["app"] = TRUE]
                /\ rf' = [rf EXCEPT ![<<"app", "interval">>] = call.frame]
                /\ UNCHANGED rSkipped
           ELSE /\ rSkipped' = [rSkipped EXCEPT !["app"] =
                                  @ \/ isRefreshing["app"]]
                /\ UNCHANGED <<isRefreshing, rf>>
  /\ UNCHANGED <<localStorage, hasInterval, srvValid, srvIssued, user,
                 isAuthenticated, aPc, aCode, aTokens, loggedOut, autoFail>>

\* the access tokens issued so far expire
TokenExpires ==
  /\ srvValid # {}
  /\ srvValid' = {}
  /\ UNCHANGED <<localStorage, isRefreshing, rf, hasInterval, srvIssued, user,
                 isAuthenticated, aPc, aCode, aTokens, authOps, loggedOut,
                 autoFail, rSkipped>>

\* the user loads the page, or comes back from Google's consent page with a
\* code
Reload(withCode) ==
  /\ authOps < MaxAuthOps
  /\ authOps' = authOps + 1
  /\ PageLoaded(withCode)
  /\ UNCHANGED <<localStorage, srvValid, srvIssued, loggedOut, autoFail,
                 rSkipped>>

\* the settings dialog of the dashboard: userService.setGoogleDriveSettings
SaveSettings ==
  /\ user.set /\ aPc = "ready"
  /\ GetOAuthSettings(localStorage).clientId # SavedSettings.clientId
  /\ localStorage' = SetOAuthSettings(localStorage, SavedSettings)
  /\ UNCHANGED <<isRefreshing, rf, hasInterval, srvValid, srvIssued, user,
                 isAuthenticated, aPc, aCode, aTokens, authOps, loggedOut,
                 autoFail, rSkipped>>

\* Header.handleLogout of a user who is not the public user: the storage is
\* cleared, the Google tokens and the OAuth settings are put back,
\* 'justLoggedOut' is set, and window.location.href = '/' loads the page
HandleLogout ==
  /\ user.set /\ user.email # PublicEmail /\ aPc # "boot"
  /\ authOps < MaxAuthOps
  /\ authOps' = authOps + 1
  /\ LET t == GetTokens(localStorage)
         s == GetOAuthSettings(localStorage)
         cleared == ClearUserData(EmptyMap)
         s1 == IF Truthy(t.accessToken) /\ Truthy(t.refreshToken)
                 THEN SetTokens(cleared, t.accessToken, t.refreshToken)
                 ELSE cleared
         s2 == IF Truthy(s.clientId) /\ Truthy(s.clientSecret)
                    /\ Truthy(s.driveUrl)
                 THEN SetOAuthSettings(s1, s)
                 ELSE s1
     IN  localStorage' = MapSet(s2, "justLoggedOut", "true")
  /\ PageLoaded(FALSE)
  /\ loggedOut' = TRUE
  /\ UNCHANGED <<srvValid, srvIssued, autoFail, rSkipped>>

AuthStep(A) ==
  /\ A
  /\ UNCHANGED <<drive, serviceVars, listVars, clientVars, ancVars, naiveVars,
                 folderSearchVars, uiVars, stLastSet, stGot, stOps>>

\* a step of AppContent or of the Header on a page without the dashboard
AppStep(A) == AuthStep(A /\ UNCHANGED dashVars)

NextApp ==
  \/ AppStep(AppBoot)
  \/ \E ok \in BOOLEAN : AppStep(ExchangeDone(ok))
  \/ \E answered \in BOOLEAN : AppStep(ValidateDone(answered))
  \/ \E answered \in BOOLEAN : AppStep(UserInfoDone(answered))
  \/ \E k \in RefreshCallers : AppStep(AppSettingsDone(k))
  \/ \E k \in RefreshCallers, ok \in BOOLEAN : AppStep(AppRefreshDone(k, ok))
  \/ AppStep(AppIntervalTick)
  \/ AppStep(TokenExpires)
  \/ \E withCode \in BOOLEAN : AppStep(Reload(withCode))
  \/ AppStep(SaveSettings)
  \/ AppStep(HandleLogout)

InitApp == InitWith({DriveScenario})

SpecApp == InitApp /\ [][NextApp]_vars

(***************************************************************************)
(* The dashboard (part_008): fetchFiles, its refreshAccessToken, its       *)
(* 50-minute timer and handleTokenExpired.  A fetchFiles call works on the *)
(* accessToken and refreshToken of the render that created the callback;   *)
(* the call it makes on itself after a refresh is the same callback.       *)
(***************************************************************************)
\* a fetchFiles call of the callback created with accessToken = token and
\* refreshToken = refresh: its first files.list request is in flight
NewFetch(token, refresh) ==
  [pc |-> "list", token |-> token, refresh |-> refresh, rounds |-> 1,
   got |-> None]

\* `return fetchFiles(targetFolderId)` after refreshAccessToken returned
\* got: the same callback sends the next request
Retried(f, got) ==
  [f EXCEPT !.pc = "list", !.rounds = @ + 1, !.got = got]

\* the user signs in (AppContent's OAuth flow) and opens the dashboard:
\* loadUserSessionFromStorage takes the tokens from the storage, the timer
\* is set up and the effect on accessToken calls fetchFiles
OpenDashboard ==
  LET t == AccessToken(srvIssued + 1) IN
  /\ ~dMounted /\ ~dLoggingOut
  /\ authOps < MaxAuthOps /\ srvIssued < MaxTokens
  /\ authOps' = authOps + 1
  /\ srvIssued' = srvIssued + 1
  /\ srvValid' = srvValid \cup {t}
  /\ localStorage' =
       SetUserData(SetTokens(localStorage, t, RefreshTokenValue),
                   UserInfo.email, UserInfo.role)
  /\ user' = UserInfo
  /\ dMounted' = TRUE /\ dAccess' = t /\ dRefresh' = RefreshTokenValue
  /\ hasInterval' = [hasInterval EXCEPT !["dashboard"] = TRUE]
  /\ fIssued' = fIssued + 1
  /\ fCalls' = MapSet(fCalls, fIssued + 1, NewFetch(t, RefreshTokenValue))
  /\ UNCHANGED <<isRefreshing, rf, dLoggingOut, rSkipped>>

\* handleTokenExpired(): the timer is cleared, the storage and the state
\* are reset, and the page is left 300 ms later
HandleTokenExpired ==
  /\ hasInterval' = [hasInterval EXCEPT !["dashboard"] = FALSE]
  /\ localStorage' = RemoveItemsIn(ClearUserData(localStorage),
                                   {"returnPath", "currentUser"})
  /\ dAccess' = None /\ dRefresh' = None
  /\ user' = NoUser
  /\ dLoggingOut' = TRUE

\* fetchFiles: the files.list request of call n is answered, or fails
ListDone(n, answered) ==
  LET f == fCalls[n]
      call == RefreshCall("dashboard", f.refresh, "fetch",
                          AlreadyRefreshing("dashboard"))
  IN
  /\ f.pc = "list"
  /\ IF ~answered \/ f.token \in srvValid
       THEN \* the listing, or the error toast
            /\ fCalls' = RemoveItemsIn(fCalls, {n})
            /\ fListed' = (fListed \/ answered)
            /\ UNCHANGED <<localStorage, isRefreshing, rf, hasInterval,
                           dAccess, dRefresh, user, dLoggingOut, rSkipped>>
     ELSE IF ~Truthy(f.refresh)
       THEN /\ HandleTokenExpired
            /\ fCalls' = RemoveItemsIn(fCalls, {n})
            /\ UNCHANGED <<isRefreshing, rf, rSkipped, fListed>>
     ELSE IF call.started
       THEN /\ isRefreshing' = [isRefreshing EXCEPT !["dashboard"] = TRUE]
            /\ rf' = [rf EXCEPT ![<<"dashboard", "api">>] = call.frame]
            /\ fCalls' = [fCalls EXCEPT ![n].pc = "refresh"]
            /\ UNCHANGED <<localStorage, hasInterval, dAccess, dRefresh,
                           user, dLoggingOut, rSkipped, fListed>>
     ELSE \* the refresh is skipped, returns undefined, and fetchFiles
          \* is called again
          /\ f.rounds < MaxRounds
          /\ rSkipped' = [rSkipped EXCEPT !["dashboard"] = TRUE]
          /\ fCalls' = [fCalls EXCEPT ![n] = Retried(f, None)]
          /\ UNCHANGED <<localStorage, isRefreshing, rf, hasInterval,
                         dAccess, dRefresh, user, dLoggingOut, fListed>>
  /\ UNCHANGED <<srvValid, srvIssued, dMounted, fIssued, authOps>>

\* the dashboard's refreshAccessToken fails: handleTokenExpired(), the
\* error is rethrown and finally resets the flag; fetchFiles' catch calls
\* handleTokenExpired() again and ends, the timer callback only logs
DashRefreshFails(k) ==
  /\ HandleTokenExpired
  /\ isRefreshing' = [isRefreshing EXCEPT !["dashboard"] = FALSE]
  /\ rf' = [rf EXCEPT ![<<"dashboard", k>>] = NoFrame]
  /\ fCalls' = IF k = "api"
                 THEN RemoveItemsIn(fCalls, {n \in DOMAIN fCalls :
                                              fCalls[n].pc = "refresh"})
                 ELSE fCalls
  /\ UNCHANGED <<srvValid, srvIssued, fIssued>>

\* the dashboard's refreshAccessToken: getGoogleDriveSettings() has
\* resolved; the token request is sent unless the settings are missing
DashSettingsDone(k) ==
  /\ rf[<<"dashboard", k>>].pc = "settings"
  /\ LET s == GetGoogleDriveSettings(localStorage) IN
     IF Truthy(s.clientId) /\ Truthy(s.clientSecret)
       THEN /\ rf' = [rf EXCEPT ![<<"dashboard", k>>].pc = "token"]
            /\ UNCHANGED <<localStorage, isRefreshing, hasInterval, srvValid,
                           srvIssued, user, dAccess, dRefresh, dLoggingOut,
                           fCalls, fIssued>>
       ELSE DashRefreshFails(k)
  /\ UNCHANGED <<dMounted, authOps, rSkipped, fListed>>

\* the dashboard's refreshAccessToken: the token request is answered.  On
\* success setAccessToken and setTokens store the new token and finally
\* resets the flag; a fetchFiles call that awaited the refresh calls
\* fetchFiles again, and the effect on accessToken starts a call of the
\* new callback.
DashRefreshDone(k, ok) ==
  LET t == AccessToken(srvIssued + 1) IN
  /\ rf[<<"dashboard", k>>].pc = "token"
  /\ IF ok
       THEN /\ srvIssued < MaxTokens
            /\ srvIssued' = srvIssued + 1
            /\ srvValid' = srvValid \cup {t}
            /\ dAccess' = t
            /\ localStorage' = SetTokens(localStorage, t, None)
            /\ isRefreshing' = [isRefreshing EXCEPT !["dashboard"] = FALSE]
            /\ rf' = [rf EXCEPT ![<<"dashboard", k>>] = NoFrame]
            /\ fIssued' = fIssued + 1
            /\ fCalls' =
                 MapSet([n \in DOMAIN fCalls |->
                           IF k = "api" /\ fCalls[n].pc = "refresh"
                             THEN Retried(fCalls[n], t)
                             ELSE fCalls[n]],
                        fIssued + 1, NewFetch(t, dRefresh))
            /\ UNCHANGED <<hasInterval, dRefresh, user, dLoggingOut>>
       ELSE DashRefreshFails(k)
  /\ UNCHANGED <<dMounted, authOps, rSkipped, fListed>>

\* the callback of the dashboard's 50-minute timer
DashIntervalTick ==
  LET call == RefreshCall("dashboard", dRefresh, "timer",
                          AlreadyRefreshing("dashboard"))
  IN
  /\ hasInterval["dashboard"] /\ rf[<<"dashboard", "interval">>].pc = "none"
  /\ authOps < MaxAuthOps
  /\ authOps' = authOps + 1
  /\ IF call.started
       THEN /\ isRefreshing' = [isRefreshing EXCEPT !["dashboard"] = TRUE]
            /\ rf' = [rf EXCEPT ![<<"dashboard", "interval">>] = call.frame]
            /\ UNCHANGED rSkipped
       ELSE /\ rSkipped' = [rSkipped EXCEPT !["dashboard"] = TRUE]
            /\ UNCHANGED <<isRefreshing, rf>>
  /\ UNCHANGED <<localStorage, hasInterval, srvValid, srvIssued, user,
                 dMounted, dAccess, dRefresh, dLoggingOut, fCalls, fIssued,
                 fListed>>

\* 300 ms after handleTokenExpired(): window.location.href = '/'
RedirectHome ==
  /\ dLoggingOut
  /\ dLoggingOut' = FALSE /\ dMounted' = FALSE
  /\ dAccess' = None /\ dRefresh' = None
  /\ fCalls' = EmptyMap
  /\ PageLoaded(FALSE)
  /\ UNCHANGED <<localStorage, srvValid, srvIssued, fIssued, fListed,
                 authOps, rSkipped, loggedOut, autoFail>>

\* a step of the dashboard leaves AppContent's own state alone
DashStep(A) ==
  AuthStep(A /\ UNCHANGED <<isAuthenticated, aPc, aCode, aTokens, loggedOut,
                            autoFail>>)

NextDash ==
  \/ DashStep(OpenDashboard /\ UNCHANGED fListed)
  \/ \E n \in DOMAIN fCalls, answered \in BOOLEAN :
       DashStep(ListDone(n, answered))
  \/ \E k \in RefreshCallers : DashStep(DashSettingsDone(k))
  \/ \E k \in RefreshCallers, ok \in BOOLEAN : DashStep(DashRefreshDone(k, ok))
  \/ DashStep(DashIntervalTick)
  \/ DashStep(TokenExpires /\ UNCHANGED dashVars)
  \/ AuthStep(RedirectHome)

InitDash == InitWith({DriveScenario})

SpecDash == InitDash /\ [][NextDash]_vars

(***************************************************************************)
(* Properties.                                                             *)
(***************************************************************************)
SearchDone == pc = "done" /\ op = "search"

BuildDone == pc = "done" /\ op = "build"

\* isDescendant by the primary-parent chain: root is n or an ancestor of n
PrimaryDescendant(n, r) == r \in PrimaryChain(n)

\* the query batch (0-based) that holds position k of the index keys
QueryBatchOf(k) == (k - 1) \div QueryBatchSize

\* C1: every record searchFiles returns is a node whose primary-parent chain
\* reaches the search root, whichever strategy produced it.
C1_ResultsAreDescendants ==
  SearchDone => \A k \in DOMAIN results : PrimaryDescendant(results[k].id, root)

\* C2: when no remote call has failed, searchFiles returns exactly the nodes
\* under root (by the primary-parent chain) whose name contains the query.
C2_ExactResults ==
  (SearchDone /\ failCount = 0) =>
     Ids(results) = {n \in NodeSet : /\ Contains(drive.name[n], Query)
                                     /\ PrimaryDescendant(n, root)}

\* C3 as claimed: the indexed strategy runs only after the global strategy
\* raised an error; a successful global search, empty or not, is the answer.
C3_FallbackOnlyOnError ==
  (op = "search" /\ ranIndexed) => globalOutcome = "error"

\* C3 amended: the indexed strategy runs exactly when the global strategy
\* raised an error or completed with an empty result; a non-empty global
\* result is returned as it is, with no index build and no per-folder query.
C3_FallbackOnErrorOrEmpty ==
  (op = "search" /\ pc \in {"build", "query", "done", "failed"}) =>
     /\ ranIndexed <=> \/ globalOutcome = "error"
                       \/ globalOutcome = "ok" /\ validItems = <<>>
     /\ ~ranIndexed => /\ listed = {} /\ fsKeys = <<>> /\ qBatch = <<>>
                       /\ pc = "done" => results = validItems

\* C3 witness: a successful but empty global search was followed by the
\* index build and the per-folder queries.
C3_Witness ==
  /\ SearchDone /\ globalOutcome = "ok" /\ validItems = <<>> /\ ranIndexed
  /\ fsKeys # <<>>

\* C4: when the global strategy raises an error the indexed strategy is run
\* before any failure is reported, and that error alone never fails the call.
C4_FallbackBeforeFailure ==
  /\ (op = "search" /\ globalOutcome = "error") => ranIndexed
  /\ (op = "search" /\ pc = "failed") => ranIndexed

\* C4 witness: the global listing failed and the indexed strategy returned
\* matches.
C4_Witness ==
  SearchDone /\ globalOutcome = "error" /\ ranIndexed /\ results # <<>>

\* C5: in the indexed strategy a failing per-folder query drops only that
\* folder's matches: the matches of every other indexed folder are in the
\* result and the search returns successfully.
C5_PartialFailureTolerance ==
  (op = "search" /\ ranIndexed /\ pc \in {"done", "failed"}) =>
     /\ pc = "done"
     /\ \A f \in Range(fsKeys) \ failedFolders :
           Range(MatchesIn(f)) \subseteq Ids(results)

\* C5 witness: one folder of a query batch failed, it had matches, and the
\* matches of another folder of the same batch are in the result.
C5_Witness ==
  /\ SearchDone /\ ranIndexed /\ Cardinality(failedFolders) = 1
  /\ \E i, j \in DOMAIN fsKeys :
        /\ i # j /\ QueryBatchOf(i) = QueryBatchOf(j)
        /\ fsKeys[i] \in failedFolders /\ MatchesIn(fsKeys[i]) # <<>>
        /\ fsKeys[j] \notin failedFolders /\ MatchesIn(fsKeys[j]) # <<>>
        /\ Range(MatchesIn(fsKeys[j])) \subseteq Ids(results)

\* C6: no index entry has depth > maxDepth and no child-folder listing is
\* issued for a folder deeper than maxDepth, in any completion order.
C6_DepthBound ==
  /\ \A f \in DOMAIN folderStructure : folderStructure[f].depth <= maxDepth
  /\ \A l \in listed : l.depth <= maxDepth

\* C7: when the build returns, every folder it discovered at depth <= maxDepth
\* has an index entry (also the folders at depth maxDepth and the folders
\* whose own listing failed).
C7_IndexHoldsDiscovered ==
  BuildDone =>
     \A d \in discovered : d.depth <= maxDepth => d.id \in DOMAIN folderStructure

\* C8: in the index the build returns, root has path '/', every other folder's
\* path is its parent's indexed path joined with its name, and pathCache
\* holds the same path.
C8_PathsCompose ==
  BuildDone =>
     /\ root \in DOMAIN folderStructure => folderStructure[root].path = "/"
     /\ \A f \in DOMAIN folderStructure \ {root} :
           \E parent \in Range(drive.parents[f]) \cap DOMAIN folderStructure :
              folderStructure[f].path =
                 JoinPath(folderStructure[parent].path, drive.name[f])
     /\ \A f \in DOMAIN folderStructure :
           f \in DOMAIN pathCache /\ pathCache[f] = folderStructure[f].path

\* C9: once a path (pathCache) or a path/depth (folder index) is set for a
\* folder id, no later write changes it until the caches are cleared.
C9_FirstWriterWins ==
  [][ /\ \A k \in DOMAIN pathCache \cap DOMAIN pathCache' :
            pathCache'[k] = pathCache[k]
      /\ \A k \in DOMAIN folderStructure \cap DOMAIN folderStructure' :
            /\ folderStructure'[k].path = folderStructure[k].path
            /\ folderStructure'[k].depth = folderStructure[k].depth ]_vars

Siblings(b) ==
  {s \in drive.folders \ {b} :
     Range(drive.parents[s]) \cap Range(drive.parents[b]) # {}}

\* C11: a failing child-folder listing during the index build does not end
\* the traversal: the search does not fail, every other discovered folder
\* (above the depth limit) is still listed, and the matches of every folder
\* whose own listing and query succeeded are in the result.
C11_ListingFailureTolerated ==
  (op = "search" /\ ranIndexed) =>
     /\ pc # "failed"
     /\ pc \in {"query", "done"} =>
           \A d \in discovered : d.depth < maxDepth => d \in listed
     /\ pc = "done" =>
           \A d \in discovered :
              d.id \notin failedListings \cup failedFolders =>
                 Range(MatchesIn(d.id)) \subseteq Ids(results)

\* C11 witness: the listing of folder b failed during the build, a sibling
\* of b was listed and queried, and the sibling's matches are in the result.
C11_Witness ==
  /\ SearchDone /\ ranIndexed /\ failedFolders = {}
  /\ \E b \in failedListings :
        \E s \in Siblings(b) \ failedListings :
           /\ s \in {l.id : l \in listed}
           /\ MatchesIn(s) # <<>>
           /\ Range(MatchesIn(s)) \subseteq Ids(results)

\* C13: every listing call that returns without an error answer of the
\* store returns every item the store holds for its query, not only the
\* first page.
C13_ListingsComplete ==
  (lsPc = "done" /\ ~lsDenied) => Range(lsFiles) = Range(FullListing)

\* C14: when no fetch failed and the batch limit was not reached, the
\* client-side search has fetched every folder reachable from the root
\* folders and returns every item of the root level and of those folders
\* whose name contains the query, case-insensitively.
C14_ClientSearchComplete ==
  (cPc = "done" /\ ~cFailed /\ cBatchNumber <= ClientBatchLimit) =>
     /\ ReachableFolders \subseteq Range(cFetchLog)
     /\ \A f \in ReachableFolders \cup {ThisFolderId} :
           \A n \in Range(ChildrenOf(f)) :
              ItemMatches(n) => n \in Ids(cAllResults)

\* C15: as long as no remote call has failed, isDescendantOf(n, r) answers
\* true exactly when r is n or lies on n's primary-parent chain, from every
\* reachable state of the ancestry cache, and every memoized answer is the
\* answer of a walk without the cache.
C15_AncestryCorrect ==
  failCount = 0 =>
     /\ \A n \in NodeSet, r \in NodeSet :
           IsDescendantOf(folderCache, n, r, None).res = PrimaryDescendant(n, r)
     /\ \A key \in DOMAIN folderCache :
           folderCache[key] = IsDescendantOf(EmptyMap, key[1], key[2], None).res

\* C15 witness: a second search from the same root has filtered its items
\* with memoized answers of both kinds, no remote call having failed.
C15_Witness ==
  /\ failCount = 0 /\ Len(runs) >= 1 /\ runs[1].root = root
  /\ pc = "filter" /\ allItems = <<>> /\ validItems # <<>>
  /\ \E k1, k2 \in DOMAIN folderCache :
        /\ k1[2] = root /\ k2[2] = root
        /\ folderCache[k1] /\ ~folderCache[k2]

\* C17: path resolution never raises, and a path resolved while the
\* metadata fetch of a node on the folder's parent chain failed is the
\* sentinel '/unknown'.
C17_PathSentinel ==
  /\ pathFails # {} => pc # "failed"
  /\ \A e \in pathFails : e.path = "/unknown"

\* the per-folder name queries issued so far by the indexed search
QueriedIds == SubSeq(fsKeys, 1, Min(qpos - 1, Len(fsKeys)))

NoDuplicates(seq) ==
  \A i, j \in DOMAIN seq : i # j => seq[i] # seq[j]

\* C18: within one strategy run no folder is queried twice: the index build
\* lists the children of each folder id at most once, the indexed search
\* issues at most one name query per folder id, and the client-side search
\* requests the contents of each folder id at most once.
C18_NoFolderQueriedTwice ==
  /\ relisted = {}
  /\ NoDuplicates(QueriedIds)
  /\ NoDuplicates(cFetchLog)

\* C19: a search that reaches the indexed strategy for a root for which an
\* earlier search of the session built the index issues no child-folder
\* listing.
C19_IndexBuiltOnce ==
  (/\ op = "search" /\ ranIndexed
   /\ \E i \in DOMAIN runs : runs[i].root = root /\ runs[i].indexed) =>
     listed = {}

\* C16: once isDescendantOf has stored false under (n, r) because n has no
\* parent or the fetch failed, the stored value stays false, and every call
\* isDescendantOf(n, r) that begins afterwards returns false without a
\* remote call.
C16_NegativeAnswerSticks ==
  /\ \A key \in aNeg : key \in DOMAIN folderCache /\ ~folderCache[key]
  /\ \A p \in Requests :
        (wPc[p] = "done" /\ wLater[p]) => (~wRes[p] /\ wRemote[p] = 0)

\* C20: the folders with a remote call outstanding at one moment of a
\* search never exceed the batch size of the strategy (index build, indexed
\* query, naive recursion), and no batch is started while a call of the
\* batch before it is outstanding.
C20_BoundedFanOut ==
  /\ [](/\ Cardinality(pending) <= IndexBatchSize
        /\ Cardinality(qPending) <= QueryBatchSize
        /\ Cardinality(NaiveOutstanding) <= NaiveBatchSize)
  /\ [][/\ pending # {} => currentBatch' = currentBatch
        /\ qPending # {} => qBatch' = qBatch]_vars

(***************************************************************************)
(* C21: buildFolderStructureBulk terminates for every folder structure,    *)
(* every maxDepth >= 0 and every completion order of the listings, also    *)
(* when listings fail and when a folder has more than one parent: a build  *)
(* that runs reaches its return, and every step that leaves it running     *)
(* lowers the work that is left (the folder paths below the entries that   *)
(* are queued or being listed, then the length of the queue).              *)
(***************************************************************************)
\* number of queue entries an entry for folder id of store d can still
\* give rise to: itself and those of its child folders
RECURSIVE EntryWorkIn(_, _)
EntryWorkIn(d, id) ==
  LET folders == SelectSeq(d.nodes,
                           LAMBDA n : id \in Range(d.parents[n])
                                      /\ n \in d.folders)
      sum[k \in 0..Len(folders)] ==
        IF k = 0 THEN 0 ELSE sum[k - 1] + EntryWorkIn(d, folders[k])
  IN  1 + sum[Len(folders)]

EntryWorkOf ==
  [d \in BuildDrives |-> [n \in Range(d.nodes) |-> EntryWorkIn(d, n)]]

EntryWork(id) == EntryWorkOf[drive][id]

\* the work of the entries of a sequence whose index is in idx
SumWork(entries, idx) ==
  LET sum[k \in 0..Len(entries)] ==
        IF k = 0 THEN 0
        ELSE sum[k - 1] + (IF k \in idx THEN EntryWork(entries[k].id) ELSE 0)
  IN  sum[Len(entries)]

BuildWork == SumWork(queue, DOMAIN queue) + SumWork(currentBatch, pending)

C21_BuildTerminates ==
  /\ (pc = "build") ~> (pc = "done")
  /\ [][(pc = "build" /\ pc' = "build") =>
          \/ BuildWork' < BuildWork
          \/ BuildWork' = BuildWork /\ Len(queue') < Len(queue)]_vars

\* a build has returned although a listing failed and a folder with two
\* parents was listed twice
C21_Witness ==
  /\ op = "build" /\ pc = "done"
  /\ failedListings # {} /\ relisted # {}
  /\ maxDepth > 0

\* C22: when a remote call of a running search is answered 401, the matches
\* the search has collected so far, those of earlier result pages of the
\* queried folder included, are in the result the search returns.
C22_PartialResultsKept ==
  (FolderSearchDone /\ saDenied /\ ~saOther) =>
     saCollected \subseteq Ids(FolderSearchResult)

\* C23: every result of a search that lies directly in the search root
\* carries the path '/', whichever strategy produced it and whether or not
\* the root is the configured default folder.
C23_RootMapsToSlash ==
  SearchDone =>
    \A k \in DOMAIN results :
       PrimaryParent(results[k].id) = root => results[k].path = "/"

\* C24: folderCache and pathCache are empty before the first call and
\* between invalidations they only grow: a step that removes a key from
\* either cache is clearCaches and leaves both caches empty.
C24_CachesGrowUntilCleared ==
  /\ [](opCount = 0 => folderCache = EmptyMap /\ pathCache = EmptyMap)
  /\ [][\/ /\ DOMAIN folderCache \subseteq DOMAIN folderCache'
            /\ DOMAIN pathCache \subseteq DOMAIN pathCache'
         \/ /\ pc = "idle"
            /\ folderCache' = EmptyMap /\ pathCache' = EmptyMap]_vars

\* both caches hold entries once a search has returned
C24_Witness ==
  /\ pc = "idle" /\ runs # <<>>
  /\ Cardinality(DOMAIN folderCache) >= 2
  /\ Cardinality(DOMAIN pathCache) >= 2

\* C25: the search results shown belong to the most recently issued search:
\* the result of an older search never replaces the result of a search
\* that was issued after it.
C25_LatestQueryWins == uiShown.n >= uiLatestDone

\* C30: EncryptedStorage.getItem(k) called directly after
\* EncryptedStorage.setItem(k, v) returns v, for every key k and every
\* string v, the empty string included.
C30_SetThenGet ==
  (stGot.afterSet /\ stLastSet.key = stGot.key)
     => stGot.value = stLastSet.value

\* C26: when files.list answers fetchFiles with 401 and a refresh token is
\* held, the request fetchFiles sends after refreshAccessToken returned a
\* new access token carries that token.
C26_RetryUsesRefreshedToken ==
  \A n \in DOMAIN fCalls :
    (fCalls[n].pc = "list" /\ fCalls[n].rounds > 1 /\ fCalls[n].got # None)
      => fCalls[n].token = fCalls[n].got

\* C27: a refresh started by AppContent's 50-minute timer that fails leaves
\* localStorage as it was before the failure.
C27_FailedAutoRefreshKeepsStorage ==
  autoFail.seen => autoFail.after = autoFail.before

\* C28: after the logout of an admin, an initializeApp that has run to its
\* end leaves nobody signed in, until somebody signs in with Google again.
C28_NoAutoLoginAfterLogout ==
  (loggedOut /\ aPc = "ready") => ~user.set

====
